---- MODULE Spec2Model ----
(***************************************************************************)
(* A model of bombadil: the browser-session state machine (browser.rs),    *)
(* the runner loop that drives it (runner.rs) and the LTL monitor          *)
(* (specification/ltl.rs, verifier.rs, stop.rs).                           *)
(***************************************************************************)
EXTENDS Integers, Sequences, FiniteSets, TLC

\* ------------------------------------------------------------------ bounds

\* Events the page emits by itself during a run: load, navigation, DOM and
\* target events, console entries, pauses on exceptions.
MaxPageEvents == 2
\* StateRequested events waiting in the inner_events channel.
MaxQueue == 1
\* Spawned apply tasks that have not finished yet.
MaxTasks == 1
\* The latest time of a Verifier::step, in milliseconds.
MaxTime == 6
\* The longest time between two steps, and before the first.
MaxTick == 2
\* The longest bound of a property, in milliseconds.
MaxBound == 3
\* The longest bound of a generated formula, in milliseconds.
MaxWithin == 1
\* The longest generated trace.
MaxTrace == 4
\* The value the test properties compare the extracted foo with.
Target == 9
\* The value the always test properties keep the extracted foo below.
Limit == 4

VARIABLES
    state_current,     \* InnerState of run_state_machine
    sm_status,         \* "processing" | "failed": the state machine loop
    inner_events,      \* StateRequested events in the inner_events channel
    actions_channel,   \* BrowserActions sent by Browser::apply, not yet seen
    sender_channel,    \* state_machine::Events published, not yet received
    sender_lagged,     \* the runner's receiver lost an event (capacity 1)
    paused_events,     \* Debugger.paused events in flight
    resumed_events,    \* Debugger.resumed events in flight
    pending_pauses,    \* spawned pause() evaluations not yet executed
    debugger_paused,   \* the page is stopped at a breakpoint
    apply_tasks,       \* commands left in each spawned BrowserAction::apply
    runner_status,     \* "running" | "stopped": Runner::run_test
    console_next,      \* number of console entries logged so far
    page_budget,       \* page events still to come
    last_step,         \* history: the step just taken (NoStep after any other)
    stale_requests,    \* history: inner_events[i] was posted before the last
                       \* StateChanged
    observed,          \* history: ConsoleEntry events since the last StateChanged
    expected,          \* history: those of them no later transition dropped
    reported,          \* history: console entries of all BrowserStates so far
    since_publish,     \* history: "never" | "published" | "resumed"
    resumed_for,       \* history: the action of the last debugger.resume
    error_log,         \* history: "none" | "error" | "more"
    property,          \* the Formula of each property the verifier was
                       \* loaded with, by name
    property_state,    \* Verifier::properties: each one's PropertyState
    extractors,        \* the extractors' current values
    verifier_time,     \* time of the latest Verifier::step
    results,           \* the (name, Value) pairs the latest Verifier::step
                       \* returned
    started_at,        \* history: time of the first step
    previous_time,     \* history: time of the step before the latest
    first_held,        \* history: time of the first step with foo = Target
    first_failed,      \* history: time of the first step with foo >= Limit
    on_script,         \* history: so far step i was at i ms with foo = i
    law,               \* check_equivalence: the law its two formulas are
                       \* an instance of
    mode,              \* its ValueEqMode
    syntax_left,       \* the two sides of the law, as written
    syntax_right,
    formula_left,      \* their negation normal forms
    formula_right,
    value_left,        \* their latest Values
    value_right,
    current,           \* index of the trace's current State
    trace_state,       \* trace[current]
    check_status,      \* "nnf" | "evaluate" | "loop" | "done": where the
                       \* check is
    engine_within,     \* is_within_domain(&state.url, origin) for that state
    engine_state,      \* the BrowserState the runner asks actions for
    engine_tree,       \* what available_actions returned, once called
    engine_pick,       \* what random::pick_action did with that tree
    run_options,       \* RunnerOptions
    machine_task,      \* the task of run_state_machine: "waiting" in its
                       \* select, "processing" an event, "failing" (its
                       \* closure has returned Err), "ended"
    machine_shutdown,  \* Browser's shutdown oneshot: "open" | "sent" |
                       \* "closed" (its receiver is dropped)
    machine_done,      \* Browser's done oneshot: "pending" | "sent" | "dropped"
    run_receiver,      \* Browser::receiver: state machine Events not yet
                       \* taken by next_event
    runner_task,       \* the task Runner::start spawns: "loop" (run_test),
                       \* "terminate", "awaiting" (done_receiver in
                       \* terminate), "finished", "panicked"
    run_result,        \* what run_test returned
    terminate_result,  \* what Browser::terminate returned
    run_events,        \* RunEvents sent and not yet taken by RunEvents::next
    run_events_open,   \* the broadcast Sender of RunEvents is alive
    run_shutdown,      \* Runner's shutdown oneshot: "open" | "sent" | "closed"
    run_done,          \* Runner's done oneshot: pending, sent(result), dropped
    main_task,         \* test() in main.rs: "loop" | "shutdown" | "waiting"
                       \* | "exited"
    main_exit,         \* the exit_code its loop broke with
    exit_code,         \* the exit code of the process
    run_log,           \* history: what run_test did for each StateChanged
    run_budget,        \* events the page still gives the state machine
    page_namespace,    \* window.__bombadil__ of the current page, if any:
                       \* edges_previous, edges_current, previous
    coverage_channel,  \* coverage.edges_new of the BrowserStates published
                       \* and not yet received by run_test
    edges,             \* run_test's global edge map
    capture_log,       \* history: the deltas run_test has received
    last_unit,         \* history: the namespace before and after the latest
                       \* prelude
    coverage_budget,   \* steps the page still takes
    hits,              \* a raw hit count
    bucketed,          \* the bucket of it, once computed
    hook_id,           \* the branch id of the hook that has run, if any
    cells_hit,         \* history: the cells hooks stored to since the latest
                       \* capture
    fetch_handler,     \* which of the two interception tasks the page has
    fetch_events,      \* EventRequestPaused events not yet taken by the task
    fetch_resolutions, \* per request id, the commands that resolved it
    fetch_task,        \* the interception task: listening or panicked
    last_intercept,    \* history: the latest event handled, and how
    fetch_budget,      \* requests the page still makes
    worker_tx,         \* the commands in the worker's mpsc channel
    worker_thread,     \* the worker thread: running or gone
    worker_verifier,   \* the state of the property of the worker's Verifier
    worker_reply,      \* per caller, its oneshot reply channel
    caller_task,       \* per caller: idle, awaiting its reply, or done
    caller_result,     \* per caller, what its call returned
    worker_sent,       \* history: the commands in the order they were sent
    navigation_entries, \* the entries Page.getNavigationHistory returned
    current_index,     \* its current_index
    captured_history,  \* the NavigationHistory BrowserState::current built
    tree_self,         \* a Tree of actions
    tree_pruned,       \* what Tree::prune returned for it, once called
    tree_again,        \* what Tree::prune returned for that result
    step_before,       \* history: the property states before the latest
                       \* Verifier::step that can fail
    step_log           \* history: the time of every Verifier::step of the
                       \* nested property and whether p held at it

sm_vars == <<state_current, sm_status, inner_events, actions_channel,
             sender_channel, sender_lagged, paused_events, resumed_events,
             pending_pauses, debugger_paused, apply_tasks, runner_status,
             console_next, page_budget>>
history_vars == <<last_step, stale_requests, observed, expected, reported,
                  since_publish, resumed_for, error_log>>
verifier_vars == <<property, property_state, extractors, verifier_time,
                   results, started_at, previous_time, first_held, first_failed,
                   on_script>>
check_vars == <<law, mode, syntax_left, syntax_right, formula_left,
                formula_right, value_left, value_right, current, trace_state,
                check_status>>
ltl_vars == <<verifier_vars, check_vars>>
engine_vars == <<engine_within, engine_state, engine_tree, engine_pick>>
run_vars == <<run_options, machine_task, machine_shutdown, machine_done,
              run_receiver, runner_task, run_result, terminate_result,
              run_events, run_events_open, run_shutdown, run_done, main_task,
              main_exit, exit_code, run_log, run_budget>>
coverage_vars == <<page_namespace, coverage_channel, edges, capture_log,
                   last_unit, coverage_budget, hits, bucketed, hook_id,
                   cells_hit>>
fetch_vars == <<fetch_handler, fetch_events, fetch_resolutions, fetch_task,
                last_intercept, fetch_budget>>
worker_vars == <<worker_tx, worker_thread, worker_verifier, worker_reply,
                 caller_task, caller_result, worker_sent>>
capture_vars == <<navigation_entries, current_index, captured_history>>
tree_vars == <<tree_self, tree_pruned, tree_again>>
unit_vars == <<capture_vars, tree_vars, step_before, step_log>>
aux_vars == <<run_vars, coverage_vars, fetch_vars, worker_vars, unit_vars>>
vars == <<sm_vars, history_vars, ltl_vars, engine_vars, aux_vars>>
\* What the actions of one part of the model leave alone.
core_vars == <<sm_vars, history_vars, ltl_vars, engine_vars>>
besides_run == <<core_vars, coverage_vars, fetch_vars, worker_vars, unit_vars>>
besides_coverage == <<core_vars, run_vars, fetch_vars, worker_vars, unit_vars>>
besides_fetch == <<core_vars, run_vars, coverage_vars, worker_vars, unit_vars>>
besides_worker == <<core_vars, run_vars, coverage_vars, fetch_vars, unit_vars>>
besides_unit == <<core_vars, run_vars, coverage_vars, fetch_vars, worker_vars>>
besides_capture == <<besides_unit, tree_vars, step_before, step_log>>
besides_tree == <<besides_unit, capture_vars, step_before, step_log>>

\* ------------------------------------------------------------- InnerState

NoAction == "NoAction"

Running(console_entries) ==
    [tag |-> "Running", console_entries |-> console_entries, action |-> NoAction]
Pausing(console_entries) ==
    [tag |-> "Pausing", console_entries |-> console_entries, action |-> NoAction]
Loading(console_entries) ==
    [tag |-> "Loading", console_entries |-> console_entries, action |-> NoAction]
Paused == [tag |-> "Paused", console_entries |-> <<>>, action |-> NoAction]
Navigating == [tag |-> "Navigating", console_entries |-> <<>>, action |-> NoAction]
Resuming(browser_action) ==
    [tag |-> "Resuming", console_entries |-> <<>>, action |-> browser_action]

\* BrowserActions the runner picks; the number of protocol commands apply sends.
BrowserActions == {"Click", "TypeText"}
Commands(browser_action) == IF browser_action = "TypeText" THEN 2 ELSE 1

\* ------------------------------------------------------------- InnerEvent

StateRequested == [type |-> "StateRequested"]
Loaded == [type |-> "Loaded"]
Resumed == [type |-> "Resumed"]
PausedEvent(reason, exception, call_frame_id) ==
    [type |-> "Paused", reason |-> reason, exception |-> exception,
     call_frame_id |-> call_frame_id]
FrameRequestedNavigation(main) ==
    [type |-> "FrameRequestedNavigation", main |-> main]
FrameNavigated(main, navigation_type) ==
    [type |-> "FrameNavigated", main |-> main, navigation_type |-> navigation_type]
TargetDestroyed(page) == [type |-> "TargetDestroyed", page |-> page]
NodeTreeModified == [type |-> "NodeTreeModified"]
ConsoleEntry(entry) == [type |-> "ConsoleEntry", entry |-> entry]
ActionApplied(browser_action) ==
    [type |-> "ActionApplied", action |-> browser_action]

\* ---------------------------------------------------------- process_event

\* What one call of process_event did: Ok(state) or Err, the pause() it
\* spawned, the StateRequested it posted, the BrowserState it published, the
\* debugger.resume it sent and the apply it spawned.
Transition(state, pause, posted, published, resume, applied) ==
    [ok |-> TRUE, state |-> state, pause |-> pause, posted |-> posted,
     published |-> published, resume |-> resume, applied |-> applied]
Goto(state) == Transition(state, FALSE, FALSE, <<>>, FALSE, <<>>)
Bail(state) ==
    [ok |-> FALSE, state |-> state, pause |-> FALSE, posted |-> FALSE,
     published |-> <<>>, resume |-> FALSE, applied |-> <<>>]

BrowserState(console_entries, exception) ==
    [console_entries |-> console_entries, exception |-> exception]

\* The buffer a state carries over (the match on &state in Paused and Loaded).
BufferOf(state) ==
    IF state.tag \in {"Pausing", "Loading", "Running"}
    THEN state.console_entries ELSE <<>>

OnStateRequested(state) ==
    IF state.tag = "Running"
    THEN Transition(Pausing(state.console_entries), TRUE, FALSE, <<>>, FALSE, <<>>)
    ELSE Goto(state)

OnNodeTreeModified(state) ==
    IF state.tag = "Running"
    THEN Transition(Pausing(state.console_entries), TRUE, FALSE, <<>>, FALSE, <<>>)
    ELSE Goto(state)

\* As ExceptionOf, had every pause of the page's own been fatal.
ExceptionOfOtherOnly(reason, exception) ==
    IF reason = "Other" THEN <<"None">> ELSE <<>>

\* The exception a pause reason carries: <<e>>, <<"None">> or <<>> on bail.
ExceptionOf(reason, exception) ==
    CASE reason = "Exception" ->
           IF exception = "object" THEN <<"UncaughtException">> ELSE <<>>
      [] reason = "PromiseRejection" ->
           IF exception = "object" THEN <<"UnhandledPromiseRejection">> ELSE <<>>
      [] reason = "Other" -> <<"None">>
      [] OTHER -> <<>>

OnPaused(state, reason, exception, call_frame_id) ==
    LET console_entries == BufferOf(state)
        extracted == ExceptionOf(reason, exception)
    IN  IF extracted = <<>> \/ ~call_frame_id
        THEN Bail(state)
        ELSE Transition(Paused, FALSE, FALSE,
                        <<BrowserState(console_entries, extracted[1])>>,
                        FALSE, <<>>)

\* As OnActionApplied, had it started the action without waiting for Resumed.
OnActionAppliedEager(state, browser_action) ==
    IF state.tag = "Paused"
    THEN Transition(Resuming(browser_action), FALSE, FALSE, <<>>, TRUE,
                    <<browser_action>>)
    ELSE Bail(state)

OnActionApplied(state, browser_action) ==
    IF state.tag = "Paused"
    THEN Transition(Resuming(browser_action), FALSE, FALSE, <<>>, TRUE, <<>>)
    ELSE Bail(state)

OnResumed(state) ==
    CASE state.tag = "Running" -> Goto(Running(<<>>))
      [] state.tag = "Resuming" ->
           Transition(Running(<<>>), FALSE, FALSE, <<>>, FALSE, <<state.action>>)
      [] OTHER -> Bail(state)

\* As OnLoaded, had it not carried the buffer over.
OnLoadedDropsBuffer(state) ==
    Transition(Running(<<>>), FALSE, TRUE, <<>>, FALSE, <<>>)

OnLoaded(state) ==
    Transition(Running(BufferOf(state)), FALSE, TRUE, <<>>, FALSE, <<>>)

OnFrameRequestedNavigation(state, main) ==
    IF main THEN Goto(Navigating) ELSE Goto(state)

OnConsoleEntry(state, entry) ==
    CASE state.tag = "Loading" -> Goto(Loading(Append(state.console_entries, entry)))
      [] state.tag = "Running" -> Goto(Running(Append(state.console_entries, entry)))
      [] state.tag = "Pausing" -> Goto(Pausing(Append(state.console_entries, entry)))
      [] state.tag = "Navigating" -> Goto(Navigating)
      [] OTHER -> Bail(state)

OnFrameNavigated(state, main, navigation_type) ==
    IF main
    THEN IF navigation_type = "Navigation"
         THEN Goto(Loading(<<>>))
         ELSE Transition(Running(<<>>), FALSE, TRUE, <<>>, FALSE, <<>>)
    ELSE Goto(state)

OnTargetDestroyed(state, page) ==
    IF page THEN Bail(state) ELSE Goto(state)

process_event(state, event) ==
    CASE event.type = "StateRequested" -> OnStateRequested(state)
      [] event.type = "NodeTreeModified" -> OnNodeTreeModified(state)
      [] event.type = "Paused" ->
           OnPaused(state, event.reason, event.exception, event.call_frame_id)
      [] event.type = "ActionApplied" ->
           OnActionApplied(state, event.action)
      [] event.type = "Resumed" -> OnResumed(state)
      [] event.type = "Loaded" -> OnLoaded(state)
      [] event.type = "FrameRequestedNavigation" ->
           OnFrameRequestedNavigation(state, event.main)
      [] event.type = "ConsoleEntry" -> OnConsoleEntry(state, event.entry)
      [] event.type = "FrameNavigated" ->
           OnFrameNavigated(state, event.main, event.navigation_type)
      [] event.type = "TargetDestroyed" -> OnTargetDestroyed(state, event.page)
      [] OTHER -> Bail(state)

\* As LoopContinues, had the loop logged the error and gone on.
LoopContinuesAfterError(result) == TRUE

\* run_state_machine: the loop goes on to the next event iff process_event
\* returned Ok (the ? on its result leaves the loop).
LoopContinues(result) == result.ok


\* ---------------------------------------------------------------- channels

\* The state_machine::Event one process_event call leaves on context.sender:
\* the StateChanged it published, or the Error run_state_machine reports.
Outgoing(result) ==
    IF ~result.ok THEN <<"Error">>
    ELSE IF result.published # <<>> THEN <<"StateChanged">> ELSE <<>>

IsMainNavigation(event) ==
    /\ event.type \in {"FrameRequestedNavigation", "FrameNavigated"}
    /\ event.main

Range(sequence) == {sequence[i] : i \in DOMAIN sequence}

\* Pause requests issued whose Paused event has not been processed yet.
PausesInFlight ==
    pending_pauses
    + Cardinality({i \in DOMAIN paused_events : paused_events[i].reason = "Other"})

NoStep == [kind |-> "none"]

\* One turn of the loop in run_state_machine on `event`, the channels it came
\* from already shortened to inner_rest and resumed_rest (stale_rest: which of
\* the requests left in inner_rest were posted before the last StateChanged;
\* stale: whether `event` is such a request).
Handle(event, inner_rest, stale_rest, stale, resumed_rest) ==
    LET result == process_event(state_current, event)
        outgoing == Outgoing(result)
        publishes == result.ok /\ result.published # <<>>
        aged == IF publishes THEN [i \in DOMAIN stale_rest |-> TRUE]
                ELSE stale_rest
    IN  /\ sm_status = "processing"
        /\ result.posted => Len(inner_rest) < MaxQueue
        /\ result.applied # <<>> => Len(apply_tasks) < MaxTasks
        /\ state_current' = result.state
        /\ sm_status' = IF LoopContinues(result) THEN "processing" ELSE "failed"
        /\ inner_events' = IF result.posted
                            THEN Append(inner_rest, StateRequested)
                            ELSE inner_rest
        /\ stale_requests' = IF result.posted THEN Append(aged, FALSE) ELSE aged
        /\ resumed_events' = resumed_rest + (IF result.resume THEN 1 ELSE 0)
        /\ pending_pauses' = pending_pauses + (IF result.pause THEN 1 ELSE 0)
        /\ debugger_paused' = (debugger_paused /\ ~result.resume)
        /\ sender_channel' = IF outgoing # <<>> THEN outgoing ELSE sender_channel
        /\ sender_lagged' =
              (sender_lagged \/ (outgoing # <<>> /\ sender_channel # <<>>))
        /\ apply_tasks' = IF result.applied # <<>>
                          THEN Append(apply_tasks, Commands(result.applied[1]))
                          ELSE apply_tasks
        \* history
        /\ last_step' = [kind |-> "event", event |-> event, stale |-> stale,
                         from |-> state_current, result |-> result,
                         observed |-> observed, expected |-> expected,
                         reported |-> reported, since_publish |-> since_publish,
                         resumed_for |-> resumed_for, error_log |-> error_log]
        /\ observed' = IF publishes THEN <<>>
                       ELSE IF event.type = "ConsoleEntry"
                            THEN Append(observed, event.entry) ELSE observed
        /\ expected' =
              IF publishes \/ IsMainNavigation(event) \/ event.type = "Resumed"
              THEN <<>>
              ELSE IF event.type = "ConsoleEntry" /\ state_current.tag # "Navigating"
                   THEN Append(expected, event.entry)
                   ELSE expected
        /\ reported' = IF publishes
                       THEN reported \cup Range(result.published[1].console_entries)
                       ELSE reported
        /\ since_publish' = IF publishes THEN "published"
                            ELSE IF result.applied # <<>> THEN "resumed"
                            ELSE since_publish
        /\ resumed_for' = IF result.resume THEN event.action ELSE resumed_for
        /\ error_log' =
              IF outgoing = <<>> THEN error_log
              ELSE IF error_log = "none"
                   THEN (IF result.ok THEN "none" ELSE "error")
                   ELSE "more"
        /\ UNCHANGED <<ltl_vars, engine_vars, aux_vars>>

\* ------------------------------------------------- the state machine's turns

ProcessStateRequested ==
    /\ inner_events # <<>>
    /\ Handle(Head(inner_events), Tail(inner_events), Tail(stale_requests),
              Head(stale_requests), resumed_events)
    /\ UNCHANGED <<actions_channel, paused_events, runner_status,
                   console_next, page_budget>>

ProcessPaused ==
    /\ paused_events # <<>>
    /\ Handle(Head(paused_events), inner_events, stale_requests, FALSE,
              resumed_events)
    /\ paused_events' = Tail(paused_events)
    /\ UNCHANGED <<actions_channel, runner_status, console_next, page_budget>>

ProcessResumed ==
    /\ resumed_events > 0
    /\ Handle(Resumed, inner_events, stale_requests, FALSE, resumed_events - 1)
    /\ UNCHANGED <<actions_channel, paused_events, runner_status,
                   console_next, page_budget>>

ProcessActionApplied ==
    /\ actions_channel # <<>>
    /\ Handle(ActionApplied(Head(actions_channel)), inner_events,
              stale_requests, FALSE, resumed_events)
    /\ actions_channel' = Tail(actions_channel)
    /\ UNCHANGED <<paused_events, runner_status, console_next, page_budget>>

\* Events of the page's own subscriptions (inner_events): they reach the loop
\* merged in any order with the others.
PageEvents ==
    {Loaded, NodeTreeModified,
     FrameRequestedNavigation(TRUE), FrameRequestedNavigation(FALSE),
     FrameNavigated(TRUE, "Navigation"),
     FrameNavigated(TRUE, "BackForwardCacheRestore"),
     FrameNavigated(FALSE, "Navigation"),
     TargetDestroyed(TRUE), TargetDestroyed(FALSE)}

ProcessPageEvent ==
    /\ page_budget > 0
    /\ \E event \in PageEvents :
          Handle(event, inner_events, stale_requests, FALSE, resumed_events)
    /\ page_budget' = page_budget - 1
    /\ UNCHANGED <<actions_channel, paused_events, runner_status, console_next>>

ProcessConsoleEntry ==
    /\ page_budget > 0
    /\ Handle(ConsoleEntry(console_next + 1), inner_events, stale_requests,
              FALSE, resumed_events)
    /\ console_next' = console_next + 1
    /\ page_budget' = page_budget - 1
    /\ UNCHANGED <<actions_channel, paused_events, runner_status>>

\* ---------------------------------------------------------------- the page

\* A spawned pause() runs `debugger;` once the page is not stopped already.
BrowserHitsDebugger ==
    /\ pending_pauses > 0
    /\ ~debugger_paused
    /\ pending_pauses' = pending_pauses - 1
    /\ debugger_paused' = TRUE
    /\ paused_events' = Append(paused_events, PausedEvent("Other", "none", TRUE))
    /\ last_step' = NoStep
    /\ UNCHANGED <<state_current, sm_status, inner_events, actions_channel,
                   sender_channel, sender_lagged, resumed_events, apply_tasks,
                   runner_status, console_next, page_budget>>
    /\ UNCHANGED <<stale_requests, observed, expected, reported, since_publish,
                   resumed_for, error_log, ltl_vars, engine_vars,
                   aux_vars>>

\* Pauses the page makes itself (SetPauseOnExceptions Uncaught, and others).
PagePauses ==
    {PausedEvent("Exception", "object", TRUE),
     PausedEvent("Exception", "string", TRUE),
     PausedEvent("Exception", "object", FALSE),
     PausedEvent("PromiseRejection", "object", TRUE),
     PausedEvent("Assert", "object", TRUE)}

BrowserThrows ==
    /\ page_budget > 0
    /\ ~debugger_paused
    /\ page_budget' = page_budget - 1
    /\ debugger_paused' = TRUE
    /\ \E event \in PagePauses : paused_events' = Append(paused_events, event)
    /\ last_step' = NoStep
    /\ UNCHANGED <<state_current, sm_status, inner_events, actions_channel,
                   sender_channel, sender_lagged, resumed_events, pending_pauses,
                   apply_tasks, runner_status, console_next>>
    /\ UNCHANGED <<stale_requests, observed, expected, reported, since_publish,
                   resumed_for, error_log, ltl_vars, engine_vars,
                   aux_vars>>

\* A spawned BrowserAction::apply sends its next protocol command.
ApplyStep ==
    /\ apply_tasks # <<>>
    /\ \E i \in DOMAIN apply_tasks :
          apply_tasks' =
             IF apply_tasks[i] > 1
             THEN [apply_tasks EXCEPT ![i] = @ - 1]
             ELSE SubSeq(apply_tasks, 1, i - 1)
                  \o SubSeq(apply_tasks, i + 1, Len(apply_tasks))
    /\ last_step' = [kind |-> "command", from |-> state_current]
    /\ UNCHANGED <<state_current, sm_status, inner_events, actions_channel,
                   sender_channel, sender_lagged, paused_events, resumed_events,
                   pending_pauses, debugger_paused, runner_status, console_next,
                   page_budget>>
    /\ UNCHANGED <<stale_requests, observed, expected, reported, since_publish,
                   resumed_for, error_log, ltl_vars, engine_vars,
                   aux_vars>>

\* --------------------------------------------------------------- the runner

\* Runner::run_test on an event of Browser::next_event: a StateChanged is
\* answered with an action (or the loop bails: a violation under
\* stop_on_violation, no action available); an Error, or a lagged receiver,
\* ends the loop.
RunnerReceive ==
    /\ runner_status = "running"
    /\ sender_lagged \/ sender_channel # <<>>
    /\ IF sender_lagged
       THEN /\ sender_lagged' = FALSE
            /\ runner_status' = "stopped"
            /\ UNCHANGED <<sender_channel, actions_channel>>
       ELSE /\ sender_channel' = <<>>
            /\ sender_lagged' = FALSE
            /\ IF Head(sender_channel) = "StateChanged"
               THEN \E picked \in BrowserActions \cup {NoAction} :
                       IF picked = NoAction
                       THEN /\ runner_status' = "stopped"
                            /\ UNCHANGED actions_channel
                       ELSE /\ actions_channel' = <<picked>>
                            /\ UNCHANGED runner_status
               ELSE /\ runner_status' = "stopped"
                    /\ UNCHANGED actions_channel
    /\ last_step' = NoStep
    /\ UNCHANGED <<state_current, sm_status, inner_events, paused_events,
                   resumed_events, pending_pauses, debugger_paused, apply_tasks,
                   console_next, page_budget>>
    /\ UNCHANGED <<stale_requests, observed, expected, reported, since_publish,
                   resumed_for, error_log, ltl_vars, engine_vars,
                   aux_vars>>

\* The timeout around next_event elapsed: Browser::request_state.
RunnerTimeout ==
    /\ runner_status = "running"
    /\ Len(inner_events) < MaxQueue
    /\ inner_events' = Append(inner_events, StateRequested)
    /\ stale_requests' = Append(stale_requests, FALSE)
    /\ last_step' = NoStep
    /\ UNCHANGED <<state_current, sm_status, actions_channel, sender_channel,
                   sender_lagged, paused_events, resumed_events, pending_pauses,
                   debugger_paused, apply_tasks, runner_status, console_next,
                   page_budget>>
    /\ UNCHANGED <<observed, expected, reported, since_publish,
                   resumed_for, error_log, ltl_vars, engine_vars,
                   aux_vars>>

\* ------------------------------------------------------------ specification

\* The session before its first event.
InitSession ==
    /\ state_current = Running(<<>>)
    /\ sm_status = "processing"
    /\ inner_events = <<>>
    /\ actions_channel = <<>>
    /\ sender_channel = <<>>
    /\ sender_lagged = FALSE
    /\ paused_events = <<>>
    /\ resumed_events = 0
    /\ pending_pauses = 0
    /\ debugger_paused = FALSE
    /\ apply_tasks = <<>>
    /\ runner_status = "running"
    /\ console_next = 0
    /\ page_budget = MaxPageEvents
    /\ last_step = NoStep
    /\ stale_requests = <<>>
    /\ observed = <<>>
    /\ expected = <<>>
    /\ reported = {}
    /\ since_publish = "never"
    /\ resumed_for = NoAction
    /\ error_log = "none"

\* A verifier that checks nothing: the session is modelled without one.
InitNoVerifier ==
    /\ property = <<>>
    /\ property_state = <<>>
    /\ extractors = [foo |-> 0]
    /\ verifier_time = <<>>
    /\ results = <<>>
    /\ started_at = <<>>
    /\ previous_time = <<>>
    /\ first_held = <<>>
    /\ first_failed = <<>>
    /\ on_script = TRUE

\* No equivalence check is under way.
InitNoCheck ==
    /\ law = "none"
    /\ mode = "Strict"
    /\ syntax_left = [tag |-> "Pure", value |-> TRUE, pretty |-> "true"]
    /\ syntax_right = syntax_left
    /\ formula_left = syntax_left
    /\ formula_right = syntax_left
    /\ value_left = <<>>
    /\ value_right = <<>>
    /\ current = 0
    /\ trace_state = [x |-> FALSE, y |-> FALSE]
    /\ check_status = "done"

\* No action tree is asked for.
InitNoEngine ==
    /\ engine_within = TRUE
    /\ engine_state = [content_type |-> "text/html",
                       navigation_history |-> [back |-> <<>>],
                       scripts |-> <<>>]
    /\ engine_tree = <<>>
    /\ engine_pick = <<>>

\* No test run is under way.
InitNoRun ==
    /\ run_options = [stop_on_violation |-> FALSE]
    /\ machine_task = "ended"
    /\ machine_shutdown = "closed"
    /\ machine_done = "sent"
    /\ run_receiver = <<>>
    /\ runner_task = "finished"
    /\ run_result = <<>>
    /\ terminate_result = <<>>
    /\ run_events = <<>>
    /\ run_events_open = FALSE
    /\ run_shutdown = "closed"
    /\ run_done = [tag |-> "pending"]
    /\ main_task = "exited"
    /\ main_exit = <<>>
    /\ exit_code = <<>>
    /\ run_log = <<>>
    /\ run_budget = 0

\* No coverage is collected.
InitNoCoverage ==
    /\ page_namespace = <<>>
    /\ coverage_channel = <<>>
    /\ edges = <<>>
    /\ capture_log = <<>>
    /\ last_unit = <<>>
    /\ coverage_budget = 0
    /\ hits = 0
    /\ bucketed = <<>>
    /\ hook_id = <<>>
    /\ cells_hit = {}

\* No request is intercepted.
InitNoFetch ==
    /\ fetch_handler = "none"
    /\ fetch_events = <<>>
    /\ fetch_resolutions = <<>>
    /\ fetch_task = "listening"
    /\ last_intercept = <<>>
    /\ fetch_budget = 0

\* No verifier worker runs.
InitNoWorker ==
    /\ worker_tx = <<>>
    /\ worker_thread = "gone"
    /\ worker_verifier = <<>>
    /\ worker_reply = <<>>
    /\ caller_task = <<>>
    /\ caller_result = <<>>
    /\ worker_sent = <<>>

InitNoHistory ==
    /\ navigation_entries = <<>>
    /\ current_index = 0
    /\ captured_history = <<>>

InitNoPrune ==
    /\ tree_self = <<>>
    /\ tree_pruned = <<>>
    /\ tree_again = <<>>

InitNoStep ==
    /\ step_before = <<>>
    /\ step_log = <<>>

InitNoUnit == InitNoHistory /\ InitNoPrune /\ InitNoStep
InitNoAux == InitNoRun /\ InitNoCoverage /\ InitNoFetch /\ InitNoWorker /\ InitNoUnit

\* The parts of the model a specification of one part leaves idle.
InitCore == InitSession /\ InitNoVerifier /\ InitNoCheck /\ InitNoEngine
InitBesidesRun == InitCore /\ InitNoCoverage /\ InitNoFetch /\ InitNoWorker /\ InitNoUnit
InitBesidesCoverage == InitCore /\ InitNoRun /\ InitNoFetch /\ InitNoWorker /\ InitNoUnit
InitBesidesFetch == InitCore /\ InitNoRun /\ InitNoCoverage /\ InitNoWorker /\ InitNoUnit
InitBesidesWorker == InitCore /\ InitNoRun /\ InitNoCoverage /\ InitNoFetch /\ InitNoUnit
InitBesidesUnit == InitCore /\ InitNoRun /\ InitNoCoverage /\ InitNoFetch /\ InitNoWorker

Init ==
    InitSession /\ InitNoVerifier /\ InitNoCheck /\ InitNoEngine /\ InitNoAux

Next ==
    \/ ProcessStateRequested
    \/ ProcessPaused
    \/ ProcessResumed
    \/ ProcessActionApplied
    \/ ProcessPageEvent
    \/ ProcessConsoleEntry
    \/ BrowserHitsDebugger
    \/ BrowserThrows
    \/ ApplyStep
    \/ RunnerReceive
    \/ RunnerTimeout

Spec == Init /\ [][Next]_vars

\* The scheduling the runtime gives: the state machine task takes every event
\* that stays available, the browser answers pause and resume, spawned tasks
\* run, and the runner's timeout keeps elapsing. The page owes no event of its
\* own.
Fairness ==
    /\ WF_vars(ProcessStateRequested)
    /\ WF_vars(ProcessPaused)
    /\ WF_vars(ProcessResumed)
    /\ WF_vars(ProcessActionApplied)
    /\ WF_vars(BrowserHitsDebugger)
    /\ WF_vars(ApplyStep)
    /\ WF_vars(RunnerReceive)
    /\ WF_vars(RunnerTimeout)

LiveSpec == Init /\ [][Next]_vars /\ Fairness

\* ------------------------------------------------------------------ claims

\* The state machine has just processed an event.
Stepped == last_step.kind = "event"
\* ... and published a StateChanged for it.
Published ==
    /\ Stepped
    /\ last_step.result.ok
    /\ last_step.result.published # <<>>

\* C1: at most one capture is in flight: once a pause request is issued, no
\* second one is issued before the Paused event answering the first has been
\* processed.
C1_OneCaptureInFlight == PausesInFlight <= 1

\* C2 as stated: every published BrowserState carries exactly the ConsoleEntry
\* events processed since the previous BrowserState, in arrival order, none of
\* them reported before.
C2_ConsoleExact ==
    Published =>
        /\ last_step.result.published[1].console_entries = last_step.observed
        /\ Range(last_step.result.published[1].console_entries)
              \cap last_step.reported = {}

\* C2, amended: every published BrowserState carries exactly the ConsoleEntry
\* events processed, outside Navigating, since the latest of: the previous
\* BrowserState, a main-frame FrameRequestedNavigation or FrameNavigated, a
\* Resumed event; in arrival order, none of them reported before.
C2_ConsoleSinceReset ==
    Published =>
        /\ last_step.result.published[1].console_entries = last_step.expected
        /\ Range(last_step.result.published[1].console_entries)
              \cap last_step.reported = {}

\* A BrowserState is published after an observed entry was dropped.
C2_Witness ==
    /\ Published
    /\ last_step.observed # last_step.expected
    /\ last_step.result.published[1].console_entries = last_step.expected

\* C3: between two consecutive StateChanged events the machine has accepted
\* an action and seen the page resume (Resuming + Resumed), and a Paused event
\* processed in Paused or Resuming publishes nothing.
C3_OnePerQuiescentPoint ==
    Published =>
        /\ last_step.since_publish \in {"never", "resumed"}
        /\ last_step.from.tag \notin {"Paused", "Resuming"}

\* C4: an action's apply is started only by Resuming(action) + Resumed, after
\* debugger.resume was sent for that very action.
C4_ApplyAfterResumed ==
    (Stepped /\ last_step.result.applied # <<>>) =>
        /\ last_step.event.type = "Resumed"
        /\ last_step.from.tag = "Resuming"
        /\ last_step.result.applied = <<last_step.from.action>>
        /\ last_step.resumed_for = last_step.from.action

\* The apply of a TypeText action has just been started.
C4_Witness ==
    /\ Stepped
    /\ last_step.result.applied = <<"TypeText">>
    /\ last_step.resumed_for = "TypeText"

\* C5: a StateRequested posted before the most recent StateChanged is a
\* no-op when processed: state and buffer unchanged, no pause request.
C5_StaleRequestNoOp ==
    (Stepped /\ last_step.event.type = "StateRequested" /\ last_step.stale) =>
        /\ last_step.result.state = last_step.from
        /\ ~last_step.result.pause

\* An action was applied and neither a StateChanged nor an Error followed yet.
Awaiting == since_publish = "resumed" /\ error_log = "none"

\* C6: while the runner keeps running, every applied action is eventually
\* followed by a StateChanged or an Error.
C6_Progress ==
    (Awaiting /\ runner_status = "running")
        ~> (~Awaiting \/ runner_status = "stopped")

\* C7: a failing process_event publishes exactly one Error; afterwards no
\* inner event is processed and nothing more is published.
C7_SingleErrorThenStop ==
    /\ error_log # "more"
    /\ (sm_status = "failed") <=> (error_log = "error")
    /\ Stepped => last_step.error_log = "none"
    /\ (Stepped /\ ~last_step.result.ok) => sender_channel = <<"Error">>

\* The machine has failed with a StateRequested left unprocessed.
C7_Witness ==
    /\ sm_status = "failed"
    /\ error_log = "error"
    /\ inner_events # <<>>

C9_MutatedOnlyWhileRunning ==
    last_step.kind = "command" => last_step.from.tag \in {"Running", "Navigating"}

\* -------------------------------------------------------- specification::ltl

\* Option<T>
None == <<>>
Some(x) == <<x>>

\* enum Syntax
Syntax_Pure(value, pretty) == [tag |-> "Pure", value |-> value, pretty |-> pretty]
Syntax_Thunk(function) == [tag |-> "Thunk", function |-> function]
Syntax_Not(subformula) == [tag |-> "Not", subformula |-> subformula]
Syntax_And(left, right) == [tag |-> "And", left |-> left, right |-> right]
Syntax_Or(left, right) == [tag |-> "Or", left |-> left, right |-> right]
Syntax_Implies(left, right) == [tag |-> "Implies", left |-> left, right |-> right]
Syntax_Next(subformula) == [tag |-> "Next", subformula |-> subformula]
Syntax_Always(subformula, bound) ==
    [tag |-> "Always", subformula |-> subformula, bound |-> bound]
Syntax_Eventually(subformula, bound) ==
    [tag |-> "Eventually", subformula |-> subformula, bound |-> bound]

\* enum Formula
Formula_Pure(value, pretty) == [tag |-> "Pure", value |-> value, pretty |-> pretty]
Formula_Thunk(function, negated) ==
    [tag |-> "Thunk", function |-> function, negated |-> negated]
Formula_And(left, right) == [tag |-> "And", left |-> left, right |-> right]
Formula_Or(left, right) == [tag |-> "Or", left |-> left, right |-> right]
Formula_Implies(left, right) == [tag |-> "Implies", left |-> left, right |-> right]
Formula_Next(subformula) == [tag |-> "Next", subformula |-> subformula]
Formula_Always(subformula, bound) ==
    [tag |-> "Always", subformula |-> subformula, bound |-> bound]
Formula_Eventually(subformula, bound) ==
    [tag |-> "Eventually", subformula |-> subformula, bound |-> bound]

RECURSIVE nnf_go(_, _)

\* As nnf_go, had a negated Always stayed an Always.
nnf_go_always_kept(node, negated) ==
    CASE node.tag = "Pure" ->
           Formula_Pure(IF negated THEN ~node.value ELSE node.value, node.pretty)
      [] node.tag = "Thunk" -> Formula_Thunk(node.function, negated)
      [] node.tag = "Not" -> nnf_go(node.subformula, ~negated)
      [] node.tag = "And" ->
           IF negated
           THEN Formula_Or(nnf_go(node.left, negated), nnf_go(node.right, negated))
           ELSE Formula_And(nnf_go(node.left, negated), nnf_go(node.right, negated))
      [] node.tag = "Or" ->
           IF negated
           THEN Formula_And(nnf_go(node.left, negated), nnf_go(node.right, negated))
           ELSE Formula_Or(nnf_go(node.left, negated), nnf_go(node.right, negated))
      [] node.tag = "Implies" ->
           IF negated
           THEN Formula_And(nnf_go(node.left, FALSE), nnf_go(node.right, TRUE))
           ELSE Formula_Implies(nnf_go(node.left, negated),
                                nnf_go(node.right, negated))
      [] node.tag = "Next" -> Formula_Next(nnf_go(node.subformula, negated))
      [] node.tag = "Always" ->
           Formula_Always(nnf_go(node.subformula, negated), node.bound)
      [] node.tag = "Eventually" ->
           IF negated
           THEN Formula_Always(nnf_go(node.subformula, negated), node.bound)
           ELSE Formula_Eventually(nnf_go(node.subformula, negated), node.bound)

\* As nnf_go, had a negated Implies stayed an Implies of the negations.
nnf_go_implies_kept(node, negated) ==
    CASE node.tag = "Pure" ->
           Formula_Pure(IF negated THEN ~node.value ELSE node.value, node.pretty)
      [] node.tag = "Thunk" -> Formula_Thunk(node.function, negated)
      [] node.tag = "Not" -> nnf_go(node.subformula, ~negated)
      [] node.tag = "And" ->
           IF negated
           THEN Formula_Or(nnf_go(node.left, negated), nnf_go(node.right, negated))
           ELSE Formula_And(nnf_go(node.left, negated), nnf_go(node.right, negated))
      [] node.tag = "Or" ->
           IF negated
           THEN Formula_And(nnf_go(node.left, negated), nnf_go(node.right, negated))
           ELSE Formula_Or(nnf_go(node.left, negated), nnf_go(node.right, negated))
      [] node.tag = "Implies" ->
           Formula_Implies(nnf_go(node.left, negated),
                           nnf_go(node.right, negated))
      [] node.tag = "Next" -> Formula_Next(nnf_go(node.subformula, negated))
      [] node.tag = "Always" ->
           IF negated
           THEN Formula_Eventually(nnf_go(node.subformula, negated), node.bound)
           ELSE Formula_Always(nnf_go(node.subformula, negated), node.bound)
      [] node.tag = "Eventually" ->
           IF negated
           THEN Formula_Always(nnf_go(node.subformula, negated), node.bound)
           ELSE Formula_Eventually(nnf_go(node.subformula, negated), node.bound)

nnf_go(node, negated) ==
    CASE node.tag = "Pure" ->
           Formula_Pure(IF negated THEN ~node.value ELSE node.value, node.pretty)
      [] node.tag = "Thunk" -> Formula_Thunk(node.function, negated)
      [] node.tag = "Not" -> nnf_go(node.subformula, ~negated)
      [] node.tag = "And" ->
           IF negated
           THEN Formula_Or(nnf_go(node.left, negated), nnf_go(node.right, negated))
           ELSE Formula_And(nnf_go(node.left, negated), nnf_go(node.right, negated))
      [] node.tag = "Or" ->
           IF negated
           THEN Formula_And(nnf_go(node.left, negated), nnf_go(node.right, negated))
           ELSE Formula_Or(nnf_go(node.left, negated), nnf_go(node.right, negated))
      [] node.tag = "Implies" ->
           IF negated
           THEN Formula_And(nnf_go(node.left, FALSE), nnf_go(node.right, TRUE))
           ELSE Formula_Implies(nnf_go(node.left, negated),
                                nnf_go(node.right, negated))
      [] node.tag = "Next" -> Formula_Next(nnf_go(node.subformula, negated))
      [] node.tag = "Always" ->
           IF negated
           THEN Formula_Eventually(nnf_go(node.subformula, negated), node.bound)
           ELSE Formula_Always(nnf_go(node.subformula, negated), node.bound)
      [] node.tag = "Eventually" ->
           IF negated
           THEN Formula_Always(nnf_go(node.subformula, negated), node.bound)
           ELSE Formula_Eventually(nnf_go(node.subformula, negated), node.bound)

nnf(syntax) == nnf_go(syntax, FALSE)

\* enum EventuallyViolation
TimedOut(time) == [tag |-> "TimedOut", time |-> time]
TestEnded == [tag |-> "TestEnded"]

\* enum Violation
Violation_False(time, condition) ==
    [tag |-> "False", time |-> time, condition |-> condition]
Violation_Eventually(subformula, reason) ==
    [tag |-> "Eventually", subformula |-> subformula, reason |-> reason]
Violation_Always(violation, subformula, start, end, time) ==
    [tag |-> "Always", violation |-> violation, subformula |-> subformula,
     start |-> start, end |-> end, time |-> time]
Violation_And(left, right) == [tag |-> "And", left |-> left, right |-> right]
Violation_Or(left, right) == [tag |-> "Or", left |-> left, right |-> right]
Violation_Implies(left, right) == [tag |-> "Implies", left |-> left, right |-> right]

\* enum Leaning
AssumeTrue == [tag |-> "AssumeTrue"]
AssumeFalse(violation) == [tag |-> "AssumeFalse", violation |-> violation]

\* enum Derived
Derived_Once(start, subformula) ==
    [tag |-> "Once", start |-> start, subformula |-> subformula]
Derived_Always(start, end, subformula) ==
    [tag |-> "Always", start |-> start, end |-> end, subformula |-> subformula]
Derived_Eventually(start, end, subformula) ==
    [tag |-> "Eventually", start |-> start, end |-> end, subformula |-> subformula]

\* enum Residual
Residual_True == [tag |-> "True"]
Residual_False(violation) == [tag |-> "False", violation |-> violation]
Residual_Derived(derived, leaning) ==
    [tag |-> "Derived", derived |-> derived, leaning |-> leaning]
Residual_And(left, right) == [tag |-> "And", left |-> left, right |-> right]
Residual_Or(left, right) == [tag |-> "Or", left |-> left, right |-> right]
Residual_Implies(left_formula, left, right) ==
    [tag |-> "Implies", left_formula |-> left_formula, left |-> left,
     right |-> right]
Residual_OrEventually(subformula, start, end, left, right) ==
    [tag |-> "OrEventually", subformula |-> subformula, start |-> start,
     end |-> end, left |-> left, right |-> right]
Residual_AndAlways(subformula, start, end, left, right) ==
    [tag |-> "AndAlways", subformula |-> subformula, start |-> start,
     end |-> end, left |-> left, right |-> right]

\* enum Value
Value_True == [tag |-> "True"]
Value_False(violation) == [tag |-> "False", violation |-> violation]
Value_Residual(residual) == [tag |-> "Residual", residual |-> residual]

\* A RuntimeFunction of the specification: `() => foo.current === equals`.
\* Calling it in a context (the extractors' current values) gives a Pure.
RuntimeFunction(equals) ==
    [tag |-> "Equals", pretty |-> "foo.current === n", equals |-> equals]
\* The RuntimeFunction `() => foo.current < limit`.
RuntimeFunctionLess(limit) ==
    [tag |-> "Less", pretty |-> "foo.current < n", limit |-> limit]
call(function, context) ==
    IF function.tag = "Less"
    THEN Syntax_Pure(context.foo < function.limit, function.pretty)
    ELSE Syntax_Pure(context.foo = function.equals, function.pretty)

\* enum Thunk of the equivalence tests: a variable of the trace's current
\* State, or a whole formula behind a thunk.
Thunk_Atomic(variable) == [tag |-> "Atomic", variable |-> variable]
Thunk_Subformula(syntax) == [tag |-> "Subformula", syntax |-> syntax]

\* As EndOf, had the bound been counted from time 0 and not from the time
\* of the evaluation.
EndOf_epoch(time, bound) == IF bound = None THEN None ELSE Some(bound[1])

\* time.checked_add(duration) of Formula::Always and Formula::Eventually
EndOf(time, bound) == IF bound = None THEN None ELSE Some(time + bound[1])
\* `if let Some(end) = end && end < time`
Expired(end, time) == end # None /\ end[1] < time

\* As evaluate_and, had the right one of two residuals been dropped.
evaluate_and_left_only(left, right) ==
    CASE left.tag = "True" -> right
      [] right.tag = "True" -> left
      [] left.tag = "False" /\ right.tag = "False" ->
           Value_False(Violation_And(left.violation, right.violation))
      [] right.tag = "False" -> Value_False(right.violation)
      [] left.tag = "False" -> Value_False(left.violation)
      [] OTHER -> left

evaluate_and(left, right) ==
    CASE left.tag = "True" -> right
      [] right.tag = "True" -> left
      [] left.tag = "False" /\ right.tag = "False" ->
           Value_False(Violation_And(left.violation, right.violation))
      [] right.tag = "False" -> Value_False(right.violation)
      [] left.tag = "False" -> Value_False(left.violation)
      [] OTHER -> Value_Residual(Residual_And(left.residual, right.residual))

\* As evaluate_or, had the right one of two residuals been dropped.
evaluate_or_left_only(left, right) ==
    CASE left.tag = "False" /\ right.tag = "False" ->
           Value_False(Violation_Or(left.violation, right.violation))
      [] left.tag = "True" -> Value_True
      [] right.tag = "True" -> Value_True
      [] right.tag = "False" -> left
      [] left.tag = "False" -> right
      [] OTHER -> left

evaluate_or(left, right) ==
    CASE left.tag = "False" /\ right.tag = "False" ->
           Value_False(Violation_Or(left.violation, right.violation))
      [] left.tag = "True" -> Value_True
      [] right.tag = "True" -> Value_True
      [] right.tag = "False" -> left
      [] left.tag = "False" -> right
      [] OTHER -> Value_Residual(Residual_Or(left.residual, right.residual))

evaluate_implies(left_formula, left, right) ==
    CASE left.tag = "False" -> Value_True
      [] left.tag = "True" /\ right.tag = "False" ->
           Value_False(Violation_Implies(left_formula, right.violation))
      [] left.tag = "True" /\ right.tag = "True" -> Value_True
      [] left.tag = "True" ->
           Value_Residual(Residual_Implies(left_formula, Residual_True,
                                           right.residual))
      [] right.tag = "True" -> Value_True
      [] right.tag = "False" ->
           Value_Residual(Residual_Implies(left_formula, left.residual,
                                           Residual_False(right.violation)))
      [] OTHER ->
           Value_Residual(Residual_Implies(left_formula, left.residual,
                                           right.residual))

RECURSIVE evaluate(_, _, _)
RECURSIVE evaluate_always(_, _, _, _, _)
RECURSIVE evaluate_eventually(_, _, _, _, _)
RECURSIVE step(_, _, _)

\* As evaluate_always, had a false subformula counted after the deadline too.
evaluate_always_late(subformula, start, end, time, context) ==
    LET residual == Residual_Derived(Derived_Always(start, end, subformula),
                                     AssumeTrue)
        value == evaluate(subformula, time, context)
    IN  CASE value.tag = "False" ->
               Value_False(Violation_Always(value.violation, subformula,
                                            start, end, time))
          [] Expired(end, time) -> Value_True
          [] value.tag = "True" -> Value_Residual(residual)
          [] OTHER ->
               Value_Residual(Residual_AndAlways(subformula, start, end,
                                                 value.residual, residual))

evaluate_always(subformula, start, end, time, context) ==
    IF Expired(end, time)
    THEN Value_True
    ELSE LET residual == Residual_Derived(Derived_Always(start, end, subformula),
                                          AssumeTrue)
             value == evaluate(subformula, time, context)
         IN  CASE value.tag = "True" -> Value_Residual(residual)
               [] value.tag = "False" ->
                    Value_False(Violation_Always(value.violation, subformula,
                                                 start, end, time))
               [] OTHER ->
                    Value_Residual(Residual_AndAlways(subformula, start, end,
                                                      value.residual, residual))

\* As evaluate_and_always, had two residuals counted as settled.
evaluate_and_always_settled(subformula, start, end, time, left, right) ==
    IF Expired(end, time)
    THEN Value_True
    ELSE CASE left.tag = "True" /\ right.tag = "True" -> Value_True
           [] left.tag = "False" ->
                Value_False(Violation_Always(left.violation, subformula,
                                             start, end, time))
           [] right.tag = "False" ->
                Value_False(Violation_Always(right.violation, subformula,
                                             start, end, time))
           [] left.tag = "Residual" /\ right.tag = "True" ->
                Value_Residual(Residual_AndAlways(subformula, start, end,
                                                  left.residual, Residual_True))
           [] left.tag = "True" ->
                Value_Residual(Residual_AndAlways(subformula, start, end,
                                                  Residual_True, right.residual))
           [] OTHER -> Value_True

evaluate_and_always(subformula, start, end, time, left, right) ==
    IF Expired(end, time)
    THEN Value_True
    ELSE CASE left.tag = "True" /\ right.tag = "True" -> Value_True
           [] left.tag = "False" ->
                Value_False(Violation_Always(left.violation, subformula,
                                             start, end, time))
           [] right.tag = "False" ->
                Value_False(Violation_Always(right.violation, subformula,
                                             start, end, time))
           [] left.tag = "Residual" /\ right.tag = "True" ->
                Value_Residual(Residual_AndAlways(subformula, start, end,
                                                  left.residual, Residual_True))
           [] left.tag = "True" ->
                Value_Residual(Residual_AndAlways(subformula, start, end,
                                                  Residual_True, right.residual))
           [] OTHER ->
                Value_Residual(Residual_AndAlways(subformula, start, end,
                                                  left.residual, right.residual))

\* As evaluate_eventually, had the deadline itself counted as too late.
evaluate_eventually_early(subformula, start, end, time, context) ==
    IF end # None /\ end[1] <= time
    THEN Value_False(Violation_Eventually(subformula, TimedOut(time)))
    ELSE LET residual ==
                 Residual_Derived(
                     Derived_Eventually(start, end, subformula),
                     AssumeFalse(Violation_Eventually(subformula, TestEnded)))
             value == evaluate(subformula, time, context)
         IN  CASE value.tag = "True" -> Value_True
               [] value.tag = "False" -> Value_Residual(residual)
               [] OTHER ->
                    Value_Residual(Residual_OrEventually(subformula, start, end,
                                                         value.residual, residual))

evaluate_eventually(subformula, start, end, time, context) ==
    IF Expired(end, time)
    THEN Value_False(Violation_Eventually(subformula, TimedOut(time)))
    ELSE LET residual ==
                 Residual_Derived(
                     Derived_Eventually(start, end, subformula),
                     AssumeFalse(Violation_Eventually(subformula, TestEnded)))
             value == evaluate(subformula, time, context)
         IN  CASE value.tag = "True" -> Value_True
               [] value.tag = "False" -> Value_Residual(residual)
               [] OTHER ->
                    Value_Residual(Residual_OrEventually(subformula, start, end,
                                                         value.residual, residual))

evaluate_or_eventually(subformula, start, end, time, left, right) ==
    IF Expired(end, time)
    THEN Value_False(Violation_Eventually(subformula, TimedOut(time)))
    ELSE CASE left.tag = "True" -> Value_True
           [] right.tag = "True" -> Value_True
           [] left.tag = "False" /\ right.tag = "False" ->
                Value_False(right.violation)
           [] left.tag = "False" -> Value_Residual(right.residual)
           [] right.tag = "False" -> Value_Residual(left.residual)
           [] OTHER ->
                Value_Residual(Residual_OrEventually(subformula, start, end,
                                                     left.residual,
                                                     right.residual))

\* format!("{}", value) of a bool
FormatBool(value) == IF value THEN "true" ELSE "false"

\* The thunk is called and its result put in negation normal form. The
\* closure of the equivalence tests reads an Atomic from the current State
\* and unwraps a Subformula.
evaluate_thunk(function, negated, context) ==
    CASE function.tag = "Atomic" ->
           LET state_value == context[function.variable]
               value == IF negated THEN ~state_value ELSE state_value
           IN  Formula_Pure(value, FormatBool(value))
      [] function.tag = "Subformula" ->
           nnf(IF negated THEN Syntax_Not(function.syntax) ELSE function.syntax)
      [] OTHER ->
           nnf(IF negated THEN Syntax_Not(call(function, context))
               ELSE call(function, context))

evaluate(formula, time, context) ==
    CASE formula.tag = "Pure" ->
           IF formula.value THEN Value_True
           ELSE Value_False(Violation_False(time, formula.pretty))
      [] formula.tag = "Thunk" ->
           evaluate(evaluate_thunk(formula.function, formula.negated, context),
                    time, context)
      [] formula.tag = "And" ->
           evaluate_and(evaluate(formula.left, time, context),
                        evaluate(formula.right, time, context))
      [] formula.tag = "Or" ->
           evaluate_or(evaluate(formula.left, time, context),
                       evaluate(formula.right, time, context))
      [] formula.tag = "Implies" ->
           evaluate_implies(formula.left,
                            evaluate(formula.left, time, context),
                            evaluate(formula.right, time, context))
      [] formula.tag = "Next" ->
           Value_Residual(Residual_Derived(Derived_Once(time, formula.subformula),
                                           AssumeTrue))
      [] formula.tag = "Always" ->
           evaluate_always(formula.subformula, time, EndOf(time, formula.bound),
                           time, context)
      [] formula.tag = "Eventually" ->
           evaluate_eventually(formula.subformula, time,
                               EndOf(time, formula.bound), time, context)

step(residual, time, context) ==
    CASE residual.tag = "True" -> Value_True
      [] residual.tag = "False" -> Value_False(residual.violation)
      [] residual.tag = "And" ->
           evaluate_and(step(residual.left, time, context),
                        step(residual.right, time, context))
      [] residual.tag = "Or" ->
           evaluate_or(step(residual.left, time, context),
                       step(residual.right, time, context))
      [] residual.tag = "Implies" ->
           evaluate_implies(residual.left_formula,
                            step(residual.left, time, context),
                            step(residual.right, time, context))
      [] residual.tag = "Derived" ->
           (CASE residual.derived.tag = "Once" ->
                   evaluate(residual.derived.subformula, time, context)
              [] residual.derived.tag = "Always" ->
                   evaluate_always(residual.derived.subformula,
                                   residual.derived.start, residual.derived.end,
                                   time, context)
              [] residual.derived.tag = "Eventually" ->
                   evaluate_eventually(residual.derived.subformula,
                                       residual.derived.start,
                                       residual.derived.end, time, context))
      [] residual.tag = "OrEventually" ->
           evaluate_or_eventually(residual.subformula, residual.start,
                                  residual.end, time,
                                  step(residual.left, time, context),
                                  step(residual.right, time, context))
      [] residual.tag = "AndAlways" ->
           evaluate_and_always(residual.subformula, residual.start,
                               residual.end, time,
                               step(residual.left, time, context),
                               step(residual.right, time, context))

\* ------------------------------------------------------ specification::stop

\* enum StopDefault
StopDefault_True == [tag |-> "True"]
StopDefault_False(violation) == [tag |-> "False", violation |-> violation]

stop_and_default(left, right) ==
    CASE left.tag = "True" -> right
      [] right.tag = "True" -> left
      [] OTHER -> StopDefault_False(Violation_And(left.violation, right.violation))

\* As stop_or_default, had it been written as the conjunction's.
stop_or_default_as_and(left, right) ==
    CASE left.tag = "True" -> right
      [] right.tag = "True" -> left
      [] OTHER -> StopDefault_False(Violation_Or(left.violation, right.violation))

stop_or_default(left, right) ==
    CASE left.tag = "True" -> StopDefault_True
      [] right.tag = "True" -> StopDefault_True
      [] OTHER -> StopDefault_False(Violation_Or(left.violation, right.violation))

stop_implies_default(left_formula, left, right) ==
    CASE left.tag = "False" -> StopDefault_True
      [] right.tag = "False" ->
           StopDefault_False(Violation_Implies(left_formula, right.violation))
      [] OTHER -> StopDefault_True

stop_and_always_default(subformula, start, end, time, left, right) ==
    IF left.tag = "True" THEN right
    ELSE StopDefault_False(Violation_Always(left.violation, subformula,
                                            start, end, time))

stop_or_eventually_default(left, right) ==
    CASE left.tag = "True" -> StopDefault_True
      [] right.tag = "True" -> StopDefault_True
      [] OTHER -> StopDefault_False(right.violation)

RECURSIVE stop_default(_, _)

\* As stop_default, had every Derived residual been assumed true.
stop_default_optimistic(residual, time) ==
    LET s1 == stop_default(residual.left, time)
        s2 == stop_default(residual.right, time)
        \* s1.and_then(|s1| s2.map(|s2| ...)) is Some
        both == s1 # None /\ s2 # None
    IN  CASE residual.tag = "True" -> Some(StopDefault_True)
          [] residual.tag = "False" -> Some(StopDefault_False(residual.violation))
          [] residual.tag = "Derived" ->
               Some(StopDefault_True)
          [] residual.tag = "And" ->
               IF both THEN Some(stop_and_default(s1[1], s2[1])) ELSE None
          [] residual.tag = "Or" ->
               IF both THEN Some(stop_or_default(s1[1], s2[1])) ELSE None
          [] residual.tag = "Implies" ->
               IF both
               THEN Some(stop_implies_default(residual.left_formula, s1[1], s2[1]))
               ELSE None
          [] residual.tag = "AndAlways" ->
               IF both
               THEN Some(stop_and_always_default(residual.subformula,
                                                 residual.start, residual.end,
                                                 time, s1[1], s2[1]))
               ELSE None
          [] residual.tag = "OrEventually" ->
               IF both THEN Some(stop_or_eventually_default(s1[1], s2[1]))
               ELSE None

stop_default(residual, time) ==
    LET s1 == stop_default(residual.left, time)
        s2 == stop_default(residual.right, time)
        \* s1.and_then(|s1| s2.map(|s2| ...)) is Some
        both == s1 # None /\ s2 # None
    IN  CASE residual.tag = "True" -> Some(StopDefault_True)
          [] residual.tag = "False" -> Some(StopDefault_False(residual.violation))
          [] residual.tag = "Derived" ->
               IF residual.leaning.tag = "AssumeFalse"
               THEN Some(StopDefault_False(residual.leaning.violation))
               ELSE Some(StopDefault_True)
          [] residual.tag = "And" ->
               IF both THEN Some(stop_and_default(s1[1], s2[1])) ELSE None
          [] residual.tag = "Or" ->
               IF both THEN Some(stop_or_default(s1[1], s2[1])) ELSE None
          [] residual.tag = "Implies" ->
               IF both
               THEN Some(stop_implies_default(residual.left_formula, s1[1], s2[1]))
               ELSE None
          [] residual.tag = "AndAlways" ->
               IF both
               THEN Some(stop_and_always_default(residual.subformula,
                                                 residual.start, residual.end,
                                                 time, s1[1], s2[1]))
               ELSE None
          [] residual.tag = "OrEventually" ->
               IF both THEN Some(stop_or_eventually_default(s1[1], s2[1]))
               ELSE None

\* ------------------------------------------------- specification::verifier

\* enum PropertyState
PropertyState_Initial(formula) == [tag |-> "Initial", formula |-> formula]
PropertyState_Residual(residual) == [tag |-> "Residual", residual |-> residual]
DefinitelyTrue == [tag |-> "DefinitelyTrue"]
DefinitelyFalse(violation) == [tag |-> "DefinitelyFalse", violation |-> violation]

\* Verifier::step for one property: the value it reports ...
PropertyValue(state, time, snapshot) ==
    CASE state.tag = "Initial" -> evaluate(state.formula, time, snapshot)
      [] state.tag = "Residual" -> step(state.residual, time, snapshot)
      [] state.tag = "DefinitelyTrue" -> Value_True
      [] state.tag = "DefinitelyFalse" -> Value_False(state.violation)

\* As PropertyStateAfter, had a violated always stayed under watch.
PropertyStateAfterRearmed(value) ==
    CASE value.tag = "True" -> DefinitelyTrue
      [] value.tag = "False" /\ value.violation.tag = "Always" ->
           PropertyState_Residual(
               Residual_Derived(Derived_Always(value.violation.start,
                                               value.violation.end,
                                               value.violation.subformula),
                                AssumeTrue))
      [] value.tag = "False" -> DefinitelyFalse(value.violation)
      [] value.tag = "Residual" -> PropertyState_Residual(value.residual)

\* ... and the state it keeps.
PropertyStateAfter(value) ==
    CASE value.tag = "True" -> DefinitelyTrue
      [] value.tag = "False" -> DefinitelyFalse(value.violation)
      [] value.tag = "Residual" -> PropertyState_Residual(value.residual)

\* The properties verified: eventually(() => foo.current === Target), within
\* a bound.
Properties ==
    {Formula_Eventually(Formula_Thunk(RuntimeFunction(Target), FALSE), Some(d)) :
        d \in 0..MaxBound}

\* always(() => foo.current < Limit), within a bound.
AlwaysProperties ==
    {Formula_Always(Formula_Thunk(RuntimeFunctionLess(Limit), FALSE), Some(d)) :
        d \in 0..MaxBound}

Values == 0..Target

\* The orders in which a HashMap of these names can be iterated.
Orders(names) ==
    {order \in [1..Cardinality(names) -> names] :
        \A i, j \in DOMAIN order : order[i] = order[j] => i = j}

\* The Value among `pairs` reported under `name`.
ResultOf(name) ==
    LET pairs == results[1]
    IN  pairs[CHOOSE i \in DOMAIN pairs : pairs[i][1] = name][2]

\* Verifier::step with the snapshot foo taken at `time`, later than the
\* previous step: every property, in the map's order, is evaluated or
\* stepped, its result pushed and its state replaced.
VerifierStep ==
    \E foo \in Values, time \in 0..MaxTime,
       order \in Orders(DOMAIN property_state) :
        LET snapshot == [foo |-> foo]
            value(name) == PropertyValue(property_state[name], time, snapshot)
            first == verifier_time = None
        IN  /\ IF first THEN time <= MaxTick
               ELSE /\ verifier_time[1] < time
                    /\ time <= verifier_time[1] + MaxTick
            /\ extractors' = snapshot
            /\ verifier_time' = Some(time)
            /\ results' = Some([i \in DOMAIN order |->
                                   <<order[i], value(order[i])>>])
            /\ property_state' = [name \in DOMAIN property_state |->
                                     PropertyStateAfter(value(name))]
            /\ started_at' = IF first THEN Some(time) ELSE started_at
            /\ previous_time' = verifier_time
            /\ first_held' = IF first_held = None /\ foo = Target
                             THEN Some(time) ELSE first_held
            /\ first_failed' = IF first_failed = None /\ foo >= Limit
                               THEN Some(time) ELSE first_failed
            /\ on_script' = (/\ on_script
                             /\ foo = time
                             /\ time = IF first THEN 0 ELSE verifier_time[1] + 1)
            /\ UNCHANGED <<property, sm_vars, history_vars, check_vars,
                            engine_vars, aux_vars>>

\* A verifier loaded with the properties `declared`, before its first step.
InitVerifier(declared) ==
    /\ property = declared
    /\ property_state = [name \in DOMAIN declared |->
                            PropertyState_Initial(declared[name])]
    /\ extractors = [foo |-> 0]
    /\ verifier_time = None
    /\ results = None
    /\ started_at = None
    /\ previous_time = None
    /\ first_held = None
    /\ first_failed = None
    /\ on_script = TRUE

InitLTL ==
    /\ \E formula \in Properties : InitVerifier([my_prop |-> formula])
    /\ InitSession
    /\ InitNoCheck
    /\ InitNoEngine
    /\ InitNoAux

NextLTL == VerifierStep

SpecLTL == InitLTL /\ [][NextLTL]_vars

\* C10: eventually(p).within(d), stepped at increasing times from t0, is True
\* from the first step at which p holds if that step is no later than t0+d;
\* otherwise it is a Residual whose stop default is False at every step up to
\* t0+d, and False(Eventually{TimedOut}) at the first step after t0+d, with
\* that step's time. With foo = 0, 1, 2, ... at 1 ms ticks, p = (foo = 9) and
\* d = 3 it is a Residual at 0, 1, 2, 3 ms and False at 4 ms.
C10_EventuallyWithin ==
    results # None =>
        LET value == ResultOf("my_prop")
            now == verifier_time[1]
            deadline == started_at[1] + property.my_prop.bound[1]
            timed_out(time) ==
                Value_False(Violation_Eventually(property.my_prop.subformula,
                                                 TimedOut(time)))
        IN  /\ IF first_held # None /\ first_held[1] <= deadline
               THEN value = Value_True
               ELSE IF now <= deadline
                    THEN /\ value.tag = "Residual"
                         /\ stop_default(value.residual, now) # None
                         /\ stop_default(value.residual, now)[1].tag = "False"
                    ELSE /\ \E time \in (deadline + 1)..now :
                               value = timed_out(time)
                         /\ (previous_time # None /\ previous_time[1] <= deadline)
                               => value = timed_out(now)
            /\ (on_script /\ property.my_prop.bound = Some(3)) =>
                   /\ now <= 3 =>
                        /\ value.tag = "Residual"
                        /\ stop_default(value.residual, now) # None
                        /\ stop_default(value.residual, now)[1].tag = "False"
                   /\ now = 4 => value = timed_out(4)

\* The scripted run has just timed out at 4 ms.
C10_Witness ==
    /\ on_script
    /\ property.my_prop.bound = Some(3)
    /\ verifier_time = Some(4)
    /\ ResultOf("my_prop").tag = "False"
    /\ ResultOf("my_prop").violation.reason = TimedOut(4)

\* A verifier loaded with one bounded always and one bounded eventually of
\* the same bound.
InitVerifierBoth ==
    /\ \E always_formula \in AlwaysProperties, eventually_formula \in Properties :
           /\ always_formula.bound = eventually_formula.bound
           /\ InitVerifier([always_prop |-> always_formula,
                            eventually_prop |-> eventually_formula])
    /\ InitSession
    /\ InitNoCheck
    /\ InitNoEngine
    /\ InitNoAux

SpecVerifier == InitVerifierBoth /\ [][NextLTL]_vars

\* C11: always(p).within(d), first evaluated at t0 and stepped at increasing
\* times, is False(Always{..}) from the first step no later than t0+d at which
\* p is false, with that step's time and p's violation; while p has held so
\* far it is a Residual whose stop default is True at every step up to t0+d,
\* and True from the first step after t0+d, whatever p is then. With
\* foo = 0, 1, 2, ... at 1 ms ticks, p = (foo < 4) and d = 3 it is a Residual
\* at 0..3 ms and True from 4 ms.
C11_AlwaysWithin ==
    results # None =>
        LET value == ResultOf("always_prop")
            formula == property.always_prop
            now == verifier_time[1]
            start == started_at[1]
            deadline == start + formula.bound[1]
            failed(time) ==
                Value_False(Violation_Always(
                    Violation_False(time, formula.subformula.function.pretty),
                    formula.subformula, start, Some(deadline), time))
        IN  /\ IF first_failed # None /\ first_failed[1] <= deadline
               THEN value = failed(first_failed[1])
               ELSE IF now <= deadline
                    THEN /\ value.tag = "Residual"
                         /\ stop_default(value.residual, now) = Some(StopDefault_True)
                    ELSE value = Value_True
            /\ (on_script /\ formula.bound = Some(3)) =>
                   IF now < 4
                   THEN /\ value.tag = "Residual"
                        /\ stop_default(value.residual, now) = Some(StopDefault_True)
                   ELSE value = Value_True

\* The window has passed unviolated and p is false at the step after it.
C11_Witness ==
    /\ results # None
    /\ property.always_prop.bound = Some(3)
    /\ on_script
    /\ verifier_time = Some(4)
    /\ extractors.foo = 4
    /\ ResultOf("always_prop") = Value_True

\* C13: every Verifier::step returns one result for each declared property and
\* no other; a property reported True is reported True by the next step, and one
\* reported False(v) is reported False(v) with the same v, whatever the next
\* snapshot and time are, and its state stays DefinitelyTrue or
\* DefinitelyFalse(v).
C13_StickyVerdicts ==
    /\ [](results # None =>
             /\ Len(results[1]) = Cardinality(DOMAIN property)
             /\ {results[1][i][1] : i \in DOMAIN results[1]} = DOMAIN property)
    /\ [][\A name \in DOMAIN property :
             (results # None /\ ResultOf(name).tag # "Residual") =>
                 /\ ResultOf(name)' = ResultOf(name)
                 /\ property_state'[name] = property_state[name]
                 /\ property_state[name] =
                        IF ResultOf(name).tag = "True" THEN DefinitelyTrue
                        ELSE DefinitelyFalse(ResultOf(name).violation)]_vars

\* Both properties were settled by an earlier step, the always violated and the
\* eventually satisfied, and the latest snapshot would satisfy the always and
\* not the eventually.
C13_Witness ==
    /\ results # None
    /\ ResultOf("always_prop").tag = "False"
    /\ ResultOf("always_prop").violation.time < verifier_time[1]
    /\ ResultOf("eventually_prop") = Value_True
    /\ first_held[1] < verifier_time[1]
    /\ extractors.foo < Limit

\* ------------------------------------------ specification::ltl_equivalences

\* struct State
States == [x : BOOLEAN, y : BOOLEAN]

\* bound(): no bound, or one of so many milliseconds
Bounds == {None} \cup {Some(d) : d \in 0..MaxWithin}

\* syntax(): the leaves ...
Leaves ==
    {Syntax_Pure(value, FormatBool(value)) : value \in BOOLEAN}
        \cup {Syntax_Thunk(Thunk_Atomic(variable)) : variable \in {"x", "y"}}

\* ... and the recursive nodes over given subformulas.
UnaryNodes(inner) ==
    {Syntax_Thunk(Thunk_Subformula(subformula)) : subformula \in inner}
        \cup {Syntax_Next(subformula) : subformula \in inner}
        \cup {Syntax_Always(subformula, bound) :
                 subformula \in inner, bound \in Bounds}
        \cup {Syntax_Eventually(subformula, bound) :
                 subformula \in inner, bound \in Bounds}

BinaryNodes(lefts, rights) ==
    {Syntax_And(left, right) : left \in lefts, right \in rights}
        \cup {Syntax_Or(left, right) : left \in lefts, right \in rights}
        \cup {Syntax_Implies(left, right) : left \in lefts, right \in rights}

\* Negations, which syntax() does not generate but from_value does.
NotNodes(inner) == {Syntax_Not(subformula) : subformula \in inner}

\* assert_values_eq: TRUE if it returns, FALSE if it panics.
assert_values_eq(left, right, time, eq_mode) ==
    CASE left.tag = "True" /\ right.tag = "True" -> TRUE
      [] left.tag = "False" /\ right.tag = "False" ->
           eq_mode = "Strict" => left.violation = right.violation
      [] left.tag = "Residual" /\ right.tag = "Residual" ->
           LET default_left == stop_default(left.residual, time)
               default_right == stop_default(right.residual, time)
           IN  IF eq_mode = "Strict" THEN default_left = default_right
               ELSE \/ default_left = None /\ default_right = None
                    \/ /\ default_left # None
                       /\ default_right # None
                       /\ default_left[1].tag = default_right[1].tag
      [] OTHER -> FALSE

\* The test puts both sides of the law in negation normal form.
CheckNnf ==
    /\ check_status = "nnf"
    /\ formula_left' = nnf(syntax_left)
    /\ formula_right' = nnf(syntax_right)
    /\ check_status' = "evaluate"
    /\ UNCHANGED <<law, mode, syntax_left, syntax_right, value_left, value_right,
                   current, trace_state, sm_vars, history_vars, verifier_vars,
                   engine_vars, aux_vars>>

\* check_equivalence, first part: both formulas are evaluated on trace[0] at
\* the epoch.
CheckEvaluate ==
    /\ check_status = "evaluate"
    /\ value_left' = Some(evaluate(formula_left, current, trace_state))
    /\ value_right' = Some(evaluate(formula_right, current, trace_state))
    /\ check_status' = "loop"
    /\ UNCHANGED <<law, mode, syntax_left, syntax_right, formula_left,
                   formula_right, current, trace_state, sm_vars, history_vars,
                   verifier_vars, engine_vars, aux_vars>>

\* One iteration of its loop over the rest of the trace, 1 ms later: both
\* residuals are stepped, or the loop is left.
CheckStep ==
    /\ check_status = "loop"
    /\ current + 1 < MaxTrace
    /\ \E next_state \in States :
           /\ current' = current + 1
           /\ trace_state' = next_state
           /\ IF value_left[1].tag = "Residual" /\ value_right[1].tag = "Residual"
              THEN /\ value_left' = Some(step(value_left[1].residual, current',
                                              next_state))
                   /\ value_right' = Some(step(value_right[1].residual, current',
                                               next_state))
                   /\ UNCHANGED check_status
              ELSE /\ check_status' = "done"
                   /\ UNCHANGED <<value_left, value_right>>
    /\ UNCHANGED <<law, mode, syntax_left, syntax_right, formula_left,
                   formula_right, sm_vars, history_vars, verifier_vars,
                   engine_vars, aux_vars>>

NextCheck == CheckNnf \/ CheckEvaluate \/ CheckStep

\* A test of the law `name` with the two sides `left` and `right`, compared in
\* `eq_mode` on a trace that starts with any State.
InitCheck(name, eq_mode, left, right) ==
    /\ law = name
    /\ mode = eq_mode
    /\ syntax_left = left
    /\ syntax_right = right
    /\ formula_left = Formula_Pure(TRUE, "true")
    /\ formula_right = Formula_Pure(TRUE, "true")
    /\ value_left = None
    /\ value_right = None
    /\ current = 0
    /\ trace_state \in States
    /\ check_status = "nnf"
    /\ InitSession
    /\ InitNoVerifier
    /\ InitNoEngine
    /\ InitNoAux

\* The assertion check_equivalence ends with, were the trace to end here.
AssertionHolds ==
    assert_values_eq(value_left[1], value_right[1], current, mode)

\* The formulas of one variable up to one node deep ...
Shallow(variable) ==
    LET atom == {Syntax_Thunk(Thunk_Atomic(variable))}
    IN  atom \cup UnaryNodes(atom) \cup NotNodes(atom)

\* ... and the formulas generated from them: the leaves, one node over x and
\* y, and one more node over those.
Syntaxes ==
    LET small == Leaves \cup Shallow("x") \cup Shallow("y")
                     \cup BinaryNodes(Shallow("x"), Shallow("y"))
    IN  small \cup UnaryNodes(small) \cup NotNodes(small)

\* The formulas the laws are instantiated with: the leaves and the formulas of
\* one variable.
Operands == Leaves \cup Shallow("x") \cup Shallow("y")

\* A formula and its negation are monitored side by side.
InitNNF ==
    \E syntax \in Syntaxes :
        InitCheck("negation", "UpToViolations", syntax, Syntax_Not(syntax))

\* test_next_self_duality, test_always_eventually_duality
InitNegationPropagation ==
    \E phi \in Operands, bound \in Bounds :
        \/ InitCheck("next_self_duality", "Strict",
                     Syntax_Next(Syntax_Not(phi)),
                     Syntax_Not(Syntax_Next(phi)))
        \/ InitCheck("always_eventually_duality", "Strict",
                     Syntax_Always(Syntax_Not(phi), bound),
                     Syntax_Not(Syntax_Eventually(phi, bound)))

SpecNNF == (InitNNF \/ InitNegationPropagation) /\ [][NextCheck]_vars

\* C12: monitoring nnf(Not(phi)) step by step gives the negation of what
\* monitoring nnf(phi) gives: True where that is False, False where that is
\* True, and a Residual where that is a Residual.
C12_NegationDual ==
    (law = "negation" /\ value_left # None) =>
        CASE value_left[1].tag = "True" -> value_right[1].tag = "False"
          [] value_left[1].tag = "False" -> value_right[1].tag = "True"
          [] OTHER -> value_right[1].tag = "Residual"

\* A bounded always over a residual subformula has run out unviolated, and
\* its negation has timed out.
C12_Witness ==
    /\ law = "negation"
    /\ check_status \in {"loop", "done"}
    /\ formula_left.tag = "Always"
    /\ formula_left.bound # None
    /\ formula_left.subformula.tag = "Next"
    /\ current > formula_left.bound[1]
    /\ value_left = Some(Value_True)
    /\ value_right # None
    /\ value_right[1].tag = "False"
    /\ value_right[1].violation.tag = "Eventually"

\* The default of `residual` and of every residual inside it is as C14 says.
RECURSIVE DefaultsAsEvaluated(_, _)
DefaultsAsEvaluated(residual, time) ==
    LET default == stop_default(residual, time)
        inner == residual.tag \notin {"True", "False", "Derived"}
        left == stop_default(residual.left, time)[1]
        right == stop_default(residual.right, time)[1]
    IN  /\ default # None
        /\ inner => /\ DefaultsAsEvaluated(residual.left, time)
                    /\ DefaultsAsEvaluated(residual.right, time)
        /\ CASE residual.tag = "True" -> default[1] = StopDefault_True
             [] residual.tag = "False" ->
                  default[1] = StopDefault_False(residual.violation)
             [] residual.tag = "Derived" ->
                  IF residual.derived.tag \in {"Once", "Always"}
                  THEN default[1] = StopDefault_True
                  ELSE default[1] =
                           StopDefault_False(
                               Violation_Eventually(residual.derived.subformula,
                                                    TestEnded))
             [] residual.tag = "And" -> default[1] = evaluate_and(left, right)
             [] residual.tag = "Or" -> default[1] = evaluate_or(left, right)
             [] residual.tag = "Implies" ->
                  default[1] = evaluate_implies(residual.left_formula, left, right)
             [] residual.tag = "AndAlways" ->
                  default[1].tag =
                      evaluate_and_always(residual.subformula, residual.start,
                                          residual.end, time, left, right).tag
             [] residual.tag = "OrEventually" ->
                  default[1] =
                      evaluate_or_eventually(residual.subformula, residual.start,
                                             residual.end, time, left, right)

\* C14: every residual the evaluator returns, and every residual inside it,
\* has a stop default: True for the residual of a next or an always, False
\* with Eventually{TestEnded} for the residual of an eventually, and for And,
\* Or, Implies, AndAlways and OrEventually the verdict evaluation gives for
\* the defaults of the two children.
C14_StopDefaultDefinite ==
    /\ (value_left # None /\ value_left[1].tag = "Residual") =>
           DefaultsAsEvaluated(value_left[1].residual, current)
    /\ (value_right # None /\ value_right[1].tag = "Residual") =>
           DefaultsAsEvaluated(value_right[1].residual, current)

\* An always over an eventually that has not held yet: its residual defaults
\* to False because the eventually's does.
C14_Witness ==
    /\ value_left # None
    /\ value_left[1].tag = "Residual"
    /\ value_left[1].residual.tag = "AndAlways"
    /\ value_left[1].residual.left.tag = "Derived"
    /\ value_left[1].residual.left.derived.tag = "Eventually"
    /\ value_left[1].residual.right.tag = "Derived"
    /\ stop_default(value_left[1].residual, current) # None
    /\ stop_default(value_left[1].residual, current)[1].tag = "False"
    /\ current > 0

\* check_equivalence(left.nnf(), right.nnf(), trace, UpToViolations)
InitLaw(name, left, right) == InitCheck(name, "UpToViolations", left, right)

\* test_next_disjunction_distributivity, test_next_conjunction_distributivity
InitNext ==
    \E phi \in Operands, psi \in Operands :
        \/ InitLaw("next_disjunction",
                   Syntax_Next(Syntax_Or(phi, psi)),
                   Syntax_Or(Syntax_Next(phi), Syntax_Next(psi)))
        \/ InitLaw("next_conjunction",
                   Syntax_Next(Syntax_And(phi, psi)),
                   Syntax_And(Syntax_Next(phi), Syntax_Next(psi)))

SpecNext == InitNext /\ [][NextCheck]_vars

\* C15: on every trace Next(Or(phi, psi)) and Or(Next(phi), Next(psi)) end
\* with the same verdict, both True, both False or both Residual with the same
\* stop default, and so do Next(And(phi, psi)) and And(Next(phi), Next(psi)).
C15_NextDistributes ==
    (law \in {"next_disjunction", "next_conjunction"} /\ value_left # None) =>
        AssertionHolds

\* Next(Or(phi, psi)) with two residual operands has been stepped twice and
\* is still a Residual.
C15_Witness ==
    /\ law = "next_disjunction"
    /\ check_status \in {"loop", "done"}
    /\ formula_left.subformula.left.tag = "Eventually"
    /\ formula_left.subformula.right.tag = "Next"
    /\ current = 2
    /\ value_left # None
    /\ value_left[1].tag = "Residual"
    /\ value_right[1].tag = "Residual"
    /\ check_status = "loop"

\* test_always_conjunction_distributivity
InitAlwaysConjunction ==
    \E phi \in Operands, psi \in Operands, bound \in Bounds :
        InitLaw("always_conjunction",
                Syntax_Always(Syntax_And(phi, psi), bound),
                Syntax_And(Syntax_Always(phi, bound), Syntax_Always(psi, bound)))

SpecAlwaysConjunction == InitAlwaysConjunction /\ [][NextCheck]_vars

\* C16: on every trace Always(And(phi, psi), b) and
\* And(Always(phi, b), Always(psi, b)) end with the same verdict: both True,
\* both False, or both Residual with the same stop default.
C16_AlwaysDistributes ==
    (law = "always_conjunction" /\ value_left # None) => AssertionHolds

\* A bounded always over a conjunction with a residual operand has run out:
\* both sides are True.
C16_Witness ==
    /\ law = "always_conjunction"
    /\ check_status \in {"loop", "done"}
    /\ formula_left.bound = Some(1)
    /\ formula_left.subformula.left.tag = "Next"
    /\ formula_left.subformula.right.tag = "Eventually"
    /\ current = 2
    /\ value_left = Some(Value_True)
    /\ value_right = Some(Value_True)

\* test_eventually_disjunction_distributivity
InitEventuallyDisjunction ==
    \E phi \in Operands, psi \in Operands, bound \in Bounds :
        InitLaw("eventually_disjunction",
                Syntax_Eventually(Syntax_Or(phi, psi), bound),
                Syntax_Or(Syntax_Eventually(phi, bound),
                          Syntax_Eventually(psi, bound)))

SpecEventuallyDisjunction == InitEventuallyDisjunction /\ [][NextCheck]_vars

\* C17: on every trace Eventually(Or(phi, psi), b) and
\* Or(Eventually(phi, b), Eventually(psi, b)) end with the same verdict: both
\* True, both False, or both Residual with the same stop default.
C17_EventuallyDistributes ==
    (law = "eventually_disjunction" /\ value_left # None) => AssertionHolds

\* A bounded eventually over a disjunction with a residual operand has timed
\* out: both sides are False.
C17_Witness ==
    /\ law = "eventually_disjunction"
    /\ check_status \in {"loop", "done"}
    /\ formula_left.bound = Some(1)
    /\ formula_left.subformula.left.tag = "Next"
    /\ formula_left.subformula.right.tag = "Always"
    /\ current = 2
    /\ value_left # None
    /\ value_left[1].tag = "False"
    /\ value_right[1].tag = "False"

\* test_eventually_idempotency, test_always_idempotency
InitIdempotency ==
    \E phi \in Operands \cup BinaryNodes(Shallow("x"), Shallow("y")) :
        \/ InitLaw("eventually_idempotency",
                   Syntax_Eventually(phi, None),
                   Syntax_Eventually(Syntax_Eventually(phi, None), None))
        \/ InitLaw("always_idempotency",
                   Syntax_Always(phi, None),
                   Syntax_Always(Syntax_Always(phi, None), None))

SpecIdempotency == InitIdempotency /\ [][NextCheck]_vars

\* C18: on every trace Eventually(Eventually(phi)) ends with the same verdict
\* as Eventually(phi), and Always(Always(phi)) with the same verdict as
\* Always(phi): both True, both False, or both Residual with the same stop
\* default.
C18_TemporalIdempotency ==
    (law \in {"eventually_idempotency", "always_idempotency"}
         /\ value_left # None) => AssertionHolds

\* Always(Always(phi)) over a residual phi is violated at a later step, as
\* Always(phi) is.
C18_Witness ==
    /\ law = "always_idempotency"
    /\ check_status \in {"loop", "done"}
    /\ formula_left.subformula.tag = "Next"
    /\ current = 3
    /\ value_left # None
    /\ value_left[1].tag = "False"
    /\ value_right[1].tag = "False"

\* No Not is left in a Formula: negation shows only in the value of a Pure and
\* the negated flag of a Thunk.
RECURSIVE NegationAtLeaves(_)
NegationAtLeaves(formula) ==
    CASE formula.tag \in {"Pure", "Thunk"} -> TRUE
      [] formula.tag \in {"And", "Or", "Implies"} ->
           NegationAtLeaves(formula.left) /\ NegationAtLeaves(formula.right)
      [] formula.tag \in {"Next", "Always", "Eventually"} ->
           NegationAtLeaves(formula.subformula)
      [] OTHER -> FALSE

\* C19: nnf(Next(Not(phi))) and nnf(Not(Next(phi))) are one formula, and so are
\* nnf(Always(Not(phi), b)) and nnf(Not(Eventually(phi, b))), so the two are
\* monitored to identical values, violations included. For every phi,
\* nnf(Not(phi)) is: the flipped Pure; the Thunk marked negated; nnf of the
\* operand of a Not; Or of the negated operands of an And and And of those of
\* an Or; And(nnf(p), nnf(Not(q))) for Implies(p, q); Next, Eventually and
\* Always of the negated operand for Next, Always and Eventually, with the
\* bound kept. nnf(Not(Not(phi))) is nnf(phi), and no Not is left.
C19_NegationPropagation ==
    check_status # "nnf" =>
        /\ law \in {"next_self_duality", "always_eventually_duality"} =>
               /\ formula_left = formula_right
               /\ value_left = value_right
               /\ value_left # None => AssertionHolds
        /\ law = "negation" =>
               LET phi == syntax_left
                   negated(syntax) == nnf(Syntax_Not(syntax))
               IN  /\ nnf(Syntax_Not(Syntax_Not(phi))) = formula_left
                   /\ NegationAtLeaves(formula_left)
                   /\ NegationAtLeaves(formula_right)
                   /\ phi.tag \in {"Always", "Eventually"} =>
                          /\ formula_left.tag = phi.tag
                          /\ formula_left.bound = phi.bound
                   /\ formula_right =
                        CASE phi.tag = "Pure" ->
                               Formula_Pure(~phi.value, phi.pretty)
                          [] phi.tag = "Thunk" ->
                               Formula_Thunk(phi.function, TRUE)
                          [] phi.tag = "Not" -> nnf(phi.subformula)
                          [] phi.tag = "And" ->
                               Formula_Or(negated(phi.left), negated(phi.right))
                          [] phi.tag = "Or" ->
                               Formula_And(negated(phi.left), negated(phi.right))
                          [] phi.tag = "Implies" ->
                               Formula_And(nnf(phi.left), negated(phi.right))
                          [] phi.tag = "Next" ->
                               Formula_Next(negated(phi.subformula))
                          [] phi.tag = "Always" ->
                               Formula_Eventually(negated(phi.subformula),
                                                  phi.bound)
                          [] phi.tag = "Eventually" ->
                               Formula_Always(negated(phi.subformula), phi.bound)

\* Always(Not(phi), b) and Not(Eventually(phi, b)) over a residual phi are both
\* violated at a later step, with the same violation.
C19_Witness ==
    /\ law = "always_eventually_duality"
    /\ check_status \in {"loop", "done"}
    /\ syntax_left.bound = Some(1)
    /\ syntax_left.subformula.subformula.tag = "Next"
    /\ current = 1
    /\ value_left[1].tag = "False"
    /\ value_left = value_right

\* ---------------------------------------------------------- Action engine

MaxCandidates == 2
MaxBack == 1

Ok(x) == [tag |-> "Ok", value |-> x]
Err(e) == [tag |-> "Err", error |-> e]

Tree_Leaf(x) == [tag |-> "Leaf", value |-> x]
Tree_Branch(branches) == [tag |-> "Branch", branches |-> branches]

\* As prune_to_size, had it not descended into the branches: only the
\* branches that are empty to begin with are removed.
prune_to_size_shallow(tree) ==
    IF tree.tag = "Leaf"
    THEN [tree |-> tree, size |-> 1]
    ELSE LET kept == SelectSeq(tree.branches,
                               LAMBDA b : b.tag = "Leaf" \/ b.branches # <<>>)
         IN  [tree |-> Tree_Branch(kept), size |-> Len(kept)]

\* Tree::prune_to_size removes in place the branches that hold no leaf and
\* returns how many are left: here the pruned tree together with that size.
RECURSIVE prune_to_size(_)
prune_to_size(tree) ==
    IF tree.tag = "Leaf"
    THEN [tree |-> tree, size |-> 1]
    ELSE LET pruned == [i \in DOMAIN tree.branches |->
                           prune_to_size(tree.branches[i])]
             kept == SelectSeq(pruned, LAMBDA r : r.size # 0)
         IN  [tree |-> Tree_Branch([i \in DOMAIN kept |-> kept[i].tree]),
              size |-> Len(kept)]

prune(tree) ==
    LET r == prune_to_size(tree)
    IN  IF r.size = 0 THEN None ELSE Some(r.tree)

\* The candidate the script `name` lists.
CandidateOf(name) ==
    CASE name = "clicks" -> [tag |-> "Click"]
      [] name = "inputs" -> [tag |-> "TypeText"]
      [] name = "scrolls" -> [tag |-> "ScrollDown", distance |-> 2]

\* What evaluating the script `name` in the paused page can give: a failed
\* call, or a list of (weight, timeout, candidate) triples.
ScriptOutputs(name) ==
    {Err("script call failed")}
        \cup {Ok([i \in 1..n |-> <<1, [secs |-> 1], CandidateOf(name)>>]) :
                 n \in 0..MaxCandidates}

\* The BrowserStates the runner can capture, by the fields available_actions
\* reads; `scripts` is what each script gives when evaluated in that state.
BrowserStates ==
    [content_type : {"text/html", "application/pdf"},
     navigation_history : {[back |-> [i \in 1..n |-> "entry"]] : n \in 0..MaxBack},
     scripts : {[clicks |-> c, inputs |-> i, scrolls |-> s] :
                   c \in ScriptOutputs("clicks"),
                   i \in ScriptOutputs("inputs"),
                   s \in ScriptOutputs("scrolls")}]

run_actions_script(state, name) ==
    LET actions == state.scripts[name]
    IN  IF actions.tag = "Err"
        THEN actions
        ELSE Ok([i \in DOMAIN actions.value |->
                    Tree_Leaf(<<actions.value[i][3], actions.value[i][2]>>)])

back(state) ==
    IF state.navigation_history.back = <<>>
    THEN Tree_Branch(<<>>)
    ELSE Tree_Leaf(<<[tag |-> "Back"], [secs |-> 2]>>)

\* `within_domain` is the value of is_within_domain(&state.url, origin).
available_actions(within_domain, state) ==
    IF state.content_type # "text/html" \/ ~within_domain
    THEN Ok(back(state))
    ELSE LET clicks == run_actions_script(state, "clicks")
             inputs == run_actions_script(state, "inputs")
             scrolls == run_actions_script(state, "scrolls")
             tree == prune(Tree_Branch(<<Tree_Branch(clicks.value),
                                         Tree_Branch(inputs.value),
                                         Tree_Branch(scrolls.value)>>))
             fallback == prune(back(state))
         IN  CASE clicks.tag = "Err" -> clicks
               [] inputs.tag = "Err" -> inputs
               [] scrolls.tag = "Err" -> scrolls
               [] tree # None -> Ok(tree[1])
               [] fallback # None -> Ok(fallback[1])
               [] OTHER -> Err("no fallback action available")

\* The outcomes of pick_from_tree over the choices of the random generator:
\* the leaf it returns, or the panic of its expect.
RECURSIVE pick_from_tree(_)
pick_from_tree(tree) ==
    IF tree.tag = "Leaf"
    THEN {[tag |-> "Picked", value |-> tree.value]}
    ELSE IF tree.branches = <<>>
         THEN {[tag |-> "Panicked",
                message |-> "there should be at least one branch"]}
         ELSE UNION {pick_from_tree(tree.branches[i]) :
                        i \in DOMAIN tree.branches}

\* The BrowserActions generate_action can make of a candidate.
generate_action(action) ==
    CASE action.tag = "Back" -> {[tag |-> "Back"]}
      [] action.tag = "Click" -> {[tag |-> "Click"]}
      [] action.tag = "TypeText" ->
             {[tag |-> "TypeText", length |-> length] : length \in 1..15}
      [] action.tag = "ScrollDown" ->
             {[tag |-> "ScrollDown", distance |-> distance] :
                 distance \in (action.distance \div 2)..action.distance}

pick_action(actions) ==
    UNION {IF outcome.tag = "Panicked"
           THEN {outcome}
           ELSE {[tag |-> "Picked",
                  value |-> <<generated, outcome.value[2]>>] :
                    generated \in generate_action(outcome.value[1])} :
              outcome \in pick_from_tree(actions)}

\* The runner asks for the actions available in the state it received.
RunnerAvailableActions ==
    /\ engine_tree = None
    /\ engine_tree' = Some(available_actions(engine_within, engine_state))
    /\ UNCHANGED <<engine_within, engine_state, engine_pick, sm_vars,
                   history_vars, ltl_vars, aux_vars>>

\* It got a tree (an error ends the test run) and picks one action from it.
RunnerPickAction ==
    /\ engine_tree # None
    /\ engine_tree[1].tag = "Ok"
    /\ engine_pick = None
    /\ \E outcome \in pick_action(engine_tree[1].value) :
           engine_pick' = Some(outcome)
    /\ UNCHANGED <<engine_within, engine_state, engine_tree, sm_vars,
                   history_vars, ltl_vars, aux_vars>>

NextActions == RunnerAvailableActions \/ RunnerPickAction

InitActions ==
    /\ engine_within \in BOOLEAN
    /\ engine_state \in BrowserStates
    /\ engine_tree = None
    /\ engine_pick = None
    /\ InitSession
    /\ InitNoVerifier
    /\ InitNoCheck
    /\ InitNoAux

SpecActions == InitActions /\ [][NextActions]_vars

\* The tree holds at least one leaf.
RECURSIVE HasLeaf(_)
HasLeaf(tree) ==
    \/ tree.tag = "Leaf"
    \/ /\ tree.tag = "Branch"
       /\ \E i \in DOMAIN tree.branches : HasLeaf(tree.branches[i])

\* No call of an actions script failed in the state.
ScriptsAnswered ==
    \A name \in DOMAIN engine_state.scripts :
        engine_state.scripts[name].tag = "Ok"

\* C20: for every BrowserState whose scripts answer, available_actions
\* either returns a tree that holds at least one leaf or fails with the
\* error "no fallback action available", and pick_action on the returned
\* tree yields an action; the states that are not text/html or lie outside
\* the origin domain and have no back entry included.
C20_LeafOrNoFallback ==
    /\ (engine_tree # None /\ ScriptsAnswered) =>
           \/ /\ engine_tree[1].tag = "Ok"
              /\ HasLeaf(engine_tree[1].value)
           \/ engine_tree[1] = Err("no fallback action available")
    /\ (engine_pick # None) => engine_pick[1].tag = "Picked"

\* ------------------------------------------------- console entries, any state

\* C30: a ConsoleEntry event is accepted in every state of the session state
\* machine, Paused and Resuming included: it is never an unhandled
\* transition, and outside Navigating it is appended to the console buffer.
C30_ConsoleEntryAccepted ==
    (Stepped /\ last_step.event.type = "ConsoleEntry") =>
        /\ last_step.result.ok
        /\ last_step.from.tag # "Navigating" =>
               last_step.result.state.console_entries =
                   Append(BufferOf(last_step.from), last_step.event.entry)

\* ------------------------------------------------------------- a test run
\* main.rs's test(), the task Runner::start spawns and the task of
\* run_state_machine, with the channels between them. The state machine is
\* taken by what it publishes; its transitions are those of Spec.

MaxRunEvents == 2

\* The BrowserStates a StateChanged can carry, by what check_page_ok and
\* available_actions read: the navigation's responseStatus, the levels of the
\* console entries, the exception, and a page with one click candidate or
\* none, as text/html or not, without back history.
RunStates ==
    {[response_status |-> status, console_entries |-> entries,
      exception |-> exception, within_domain |-> TRUE,
      content_type |-> page.content_type,
      navigation_history |-> page.navigation_history,
      scripts |-> page.scripts] :
        status \in {Some(200), Some(404)},
        entries \in {<<"Warning">>, <<"Error">>},
        exception \in {None, Some("UncaughtException")},
        page \in {b \in BrowserStates :
                     /\ b.navigation_history.back = <<>>
                     /\ b.scripts.clicks.tag = "Ok"
                     /\ Len(b.scripts.clicks.value) <= 1
                     /\ b.scripts.inputs = Ok(<<>>)
                     /\ b.scripts.scrolls = Ok(<<>>)}}

Event_StateChanged(state) == [type |-> "StateChanged", state |-> state]
Event_Error == [type |-> "Error"]

NewTraceEntry(violation) == [tag |-> "NewTraceEntry", violation |-> violation]

check_page_ok(state) ==
    IF state.response_status # None /\ state.response_status[1] >= 400
    THEN Err("expected 2xx or 3xx")
    ELSE IF \E i \in DOMAIN state.console_entries :
                state.console_entries[i] = "Error"
         THEN Err("console.error")
         ELSE IF state.exception # None
              THEN Err("uncaught exception")
              ELSE Ok(<<>>)

\* The violation check_page_ok found, as the RunEvent carries it.
ViolationOf(state) ==
    IF check_page_ok(state).tag = "Err"
    THEN Some(check_page_ok(state).error) ELSE None

\* As run_test_state_changed, had it picked and applied the action before
\* publishing the state's event and looking at the violation.
run_test_state_changed_eager(options, state, receivers) ==
    LET actions == available_actions(state.within_domain, state)
        stops == ViolationOf(state) # None /\ options.stop_on_violation
    IN  IF actions.tag = "Err"
        THEN {[sent |-> <<>>, picked |-> None, applied |-> <<>>,
               ended |-> Some(actions)]}
        ELSE {IF outcome.tag = "Panicked"
              THEN [sent |-> <<>>, picked |-> None, applied |-> <<>>,
                    ended |-> Some(outcome)]
              ELSE IF receivers
                   THEN [sent |-> <<NewTraceEntry(ViolationOf(state))>>,
                         picked |-> Some(outcome.value),
                         applied |-> <<outcome.value[1]>>,
                         ended |-> IF stops
                                   THEN Some(Err("stopping due to violation"))
                                   ELSE None]
                   ELSE [sent |-> <<>>, picked |-> Some(outcome.value),
                         applied |-> <<>>,
                         ended |-> Some(Err("channel closed"))] :
                 outcome \in pick_action(actions.value)}

\* The arm of run_test for StateChanged(state): the RunEvents it sends, the
\* (action, timeout) it picks, the actions Browser::apply sends (`receivers`:
\* the state machine still listens for actions), and how run_test ends, if
\* it does: with an Err, or with the panic of pick_action.
run_test_state_changed(options, state, receivers) ==
    LET violation == ViolationOf(state)
        sent == <<NewTraceEntry(violation)>>
        actions == available_actions(state.within_domain, state)
    IN  IF violation # None /\ options.stop_on_violation
        THEN {[sent |-> sent, picked |-> None, applied |-> <<>>,
               ended |-> Some(Err("stopping due to violation"))]}
        ELSE IF actions.tag = "Err"
             THEN {[sent |-> sent, picked |-> None, applied |-> <<>>,
                    ended |-> Some(actions)]}
             ELSE {IF outcome.tag = "Panicked"
                   THEN [sent |-> sent, picked |-> None, applied |-> <<>>,
                         ended |-> Some(outcome)]
                   ELSE IF receivers
                        THEN [sent |-> sent, picked |-> Some(outcome.value),
                              applied |-> <<outcome.value[1]>>,
                              ended |-> None]
                        ELSE [sent |-> sent, picked |-> Some(outcome.value),
                              applied |-> <<>>,
                              ended |-> Some(Err("channel closed"))] :
                      outcome \in pick_action(actions.value)}

\* ------------------------------------------- the task of run_state_machine

\* The select in run_state_machine takes an event of the stream.
MachineBegins ==
    /\ machine_task = "waiting"
    /\ run_budget > 0
    /\ machine_task' = "processing"
    /\ run_budget' = run_budget - 1
    /\ UNCHANGED <<run_options, machine_shutdown, machine_done, run_receiver,
                   runner_task, run_result, terminate_result, run_events,
                   run_events_open, run_shutdown, run_done, main_task,
                   main_exit, exit_code, run_log>>
    /\ UNCHANGED besides_run

\* process_event returns: Ok without publishing, Ok having published a
\* StateChanged (the channel holds one event), or Err, which ends the closure
\* and drops the done_sender it owns.
MachineFinishes ==
    /\ machine_task = "processing"
    /\ \/ /\ machine_task' = "waiting"
          /\ UNCHANGED <<run_receiver, machine_done>>
       \/ /\ run_receiver = <<>>
          /\ runner_task \in {"loop", "terminate", "awaiting"}
          /\ \E state \in RunStates :
                run_receiver' = <<Event_StateChanged(state)>>
          /\ machine_task' = "waiting"
          /\ UNCHANGED machine_done
       \/ /\ machine_task' = "failing"
          /\ machine_done' = "dropped"
          /\ UNCHANGED run_receiver
    /\ UNCHANGED <<run_options, machine_shutdown, runner_task, run_result,
                   terminate_result, run_events, run_events_open, run_shutdown,
                   run_done, main_task, main_exit, exit_code, run_log,
                   run_budget>>
    /\ UNCHANGED besides_run

\* The failed loop sends Event::Error; the task ends and its context, with
\* the shutdown_receiver, is dropped.
MachineReportsError ==
    /\ machine_task = "failing"
    /\ machine_task' = "ended"
    /\ run_receiver' = IF runner_task \in {"loop", "terminate", "awaiting"}
                       THEN <<Event_Error>>
                       ELSE run_receiver
    /\ machine_shutdown' = "closed"
    /\ UNCHANGED <<run_options, machine_done, runner_task, run_result,
                   terminate_result, run_events, run_events_open, run_shutdown,
                   run_done, main_task, main_exit, exit_code, run_log,
                   run_budget>>
    /\ UNCHANGED besides_run

\* The select takes the shutdown signal: the loop breaks, done_sender.send(())
\* and the task ends.
MachineSeesShutdown ==
    /\ machine_task = "waiting"
    /\ machine_shutdown = "sent"
    /\ machine_task' = "ended"
    /\ machine_done' = "sent"
    /\ machine_shutdown' = "closed"
    /\ UNCHANGED <<run_options, run_receiver, runner_task, run_result,
                   terminate_result, run_events, run_events_open, run_shutdown,
                   run_done, main_task, main_exit, exit_code, run_log,
                   run_budget>>
    /\ UNCHANGED besides_run

\* ------------------------------------------------- the task of Runner::start

\* run_test returns `result`: its events Sender and shutdown Receiver are
\* dropped, and the task goes on to Browser::terminate.
ReturnFromRunTest(result) ==
    /\ run_result' = Some(result)
    /\ runner_task' = "terminate"
    /\ run_events_open' = FALSE
    /\ run_shutdown' = "closed"
    /\ UNCHANGED <<run_done, machine_shutdown>>

\* The task panics: everything it owns is dropped, the Browser (whose
\* shutdown_sender wakes the state machine's select like a signal) and the
\* done_sender included.
RunnerPanics ==
    /\ runner_task' = "panicked"
    /\ run_events_open' = FALSE
    /\ run_shutdown' = "closed"
    /\ run_done' = [tag |-> "dropped"]
    /\ machine_shutdown' = IF machine_shutdown = "open" THEN "sent"
                           ELSE machine_shutdown

\* run_test's select takes an event of Browser::next_event. (next_event gives
\* None only when every Sender is gone, which is after the state machine has
\* sent its Error.)
RunnerNextEvent ==
    /\ runner_task = "loop"
    /\ run_receiver # <<>>
    /\ run_receiver' = <<>>
    /\ LET event == Head(run_receiver)
       IN  IF event.type = "Error"
           THEN /\ ReturnFromRunTest(Err("state machine error"))
                /\ UNCHANGED <<run_events, run_log>>
           ELSE \E taken \in run_test_state_changed(
                                 run_options, event.state,
                                 machine_task # "ended") :
                       /\ run_events' = run_events \o taken.sent
                       /\ run_log' =
                              Append(run_log,
                                     [state |-> event.state,
                                      listening |-> machine_task # "ended",
                                      sent |-> taken.sent,
                                      picked |-> taken.picked,
                                      applied |-> taken.applied,
                                      ended |-> taken.ended])
                       /\ IF taken.ended = None
                          THEN UNCHANGED <<run_result, runner_task,
                                           run_events_open, run_shutdown,
                                           run_done, machine_shutdown>>
                          ELSE IF taken.ended[1].tag = "Panicked"
                               THEN RunnerPanics /\ UNCHANGED run_result
                               ELSE ReturnFromRunTest(taken.ended[1])
    /\ UNCHANGED <<run_options, machine_task, machine_done, terminate_result,
                   main_task, main_exit, exit_code, run_budget>>
    /\ UNCHANGED besides_run

\* run_test's select takes the shutdown signal.
RunnerSeesShutdown ==
    /\ runner_task = "loop"
    /\ run_shutdown = "sent"
    /\ ReturnFromRunTest(Ok(<<>>))
    /\ UNCHANGED <<run_options, machine_task, machine_done, run_receiver,
                   terminate_result, run_events, main_task, main_exit,
                   exit_code, run_log, run_budget>>
    /\ UNCHANGED besides_run

\* Browser::terminate up to its await: the signal is sent if the state
\* machine still holds the receiver; otherwise terminate returns Ok at once
\* and the task sends its completion.
RunnerTerminates ==
    /\ runner_task = "terminate"
    /\ IF machine_shutdown = "open"
       THEN /\ machine_shutdown' = "sent"
            /\ runner_task' = "awaiting"
            /\ UNCHANGED <<terminate_result, run_done>>
       ELSE /\ terminate_result' = Some(Ok(<<>>))
            /\ run_done' = [tag |-> "sent", result |-> run_result[1]]
            /\ runner_task' = "finished"
            /\ UNCHANGED machine_shutdown
    /\ UNCHANGED <<run_options, machine_task, machine_done, run_receiver,
                   run_result, run_events, run_events_open, run_shutdown,
                   main_task, main_exit, exit_code, run_log, run_budget>>
    /\ UNCHANGED besides_run

\* done_receiver.await? in terminate resolves: with the state machine's (),
\* or with RecvError once the done_sender is dropped, and then the expect
\* on terminate's result panics.
RunnerTerminated ==
    /\ runner_task = "awaiting"
    /\ machine_done # "pending"
    /\ IF machine_done = "sent"
       THEN /\ terminate_result' = Some(Ok(<<>>))
            /\ run_done' = [tag |-> "sent", result |-> run_result[1]]
            /\ runner_task' = "finished"
            /\ UNCHANGED <<run_events_open, run_shutdown, machine_shutdown>>
       ELSE /\ terminate_result' = Some(Err("RecvError"))
            /\ RunnerPanics
    /\ UNCHANGED <<run_options, machine_task, machine_done, run_receiver,
                   run_result, run_events, main_task, main_exit, exit_code,
                   run_log, run_budget>>
    /\ UNCHANGED besides_run

\* ------------------------------------------------------------ test() in main

\* One turn of the loop on RunEvents::next; `written` is whether
\* TraceWriter::write succeeds.
MainNext ==
    /\ main_task = "loop"
    /\ IF run_events # <<>>
       THEN /\ run_events' = Tail(run_events)
            /\ \E written \in BOOLEAN :
                  IF ~written
                  THEN /\ main_exit' = Err("write failed")
                       /\ main_task' = "shutdown"
                  ELSE IF Head(run_events).violation # None
                          /\ run_options.stop_on_violation
                       THEN /\ main_exit' = Ok(Some(2))
                            /\ main_task' = "shutdown"
                       ELSE UNCHANGED <<main_exit, main_task>>
       ELSE /\ ~run_events_open
            /\ main_exit' = Ok(None)
            /\ main_task' = "shutdown"
            /\ UNCHANGED run_events
    /\ UNCHANGED <<run_options, machine_task, machine_shutdown, machine_done,
                   run_receiver, runner_task, run_result, terminate_result,
                   run_events_open, run_shutdown, run_done, exit_code, run_log,
                   run_budget>>
    /\ UNCHANGED besides_run

\* RunEvents::shutdown sends the signal, whether or not it is still awaited.
MainShutdown ==
    /\ main_task = "shutdown"
    /\ main_task' = "waiting"
    /\ run_shutdown' = IF run_shutdown = "open" THEN "sent" ELSE run_shutdown
    /\ UNCHANGED <<run_options, machine_task, machine_shutdown, machine_done,
                   run_receiver, runner_task, run_result, terminate_result,
                   run_events, run_events_open, run_done, main_exit, exit_code,
                   run_log, run_budget>>
    /\ UNCHANGED besides_run

\* The exit code of the process once (&mut self.done).await? resolves: an
\* Err from shutdown leaves test() and main through ?, which exits with 1.
ExitCode(done, loop_exit) ==
    IF done.tag = "sent" /\ done.result.tag = "Ok" /\ loop_exit.tag = "Ok"
    THEN IF loop_exit.value # None THEN loop_exit.value[1] ELSE 0
    ELSE 1

MainExits ==
    /\ main_task = "waiting"
    /\ run_done.tag # "pending"
    /\ main_task' = "exited"
    /\ exit_code' = Some(ExitCode(run_done, main_exit))
    /\ UNCHANGED <<run_options, machine_task, machine_shutdown, machine_done,
                   run_receiver, runner_task, run_result, terminate_result,
                   run_events, run_events_open, run_shutdown, run_done,
                   main_exit, run_log, run_budget>>
    /\ UNCHANGED besides_run

NextRun ==
    \/ MachineBegins
    \/ MachineFinishes
    \/ MachineReportsError
    \/ MachineSeesShutdown
    \/ RunnerNextEvent
    \/ RunnerSeesShutdown
    \/ RunnerTerminates
    \/ RunnerTerminated
    \/ MainNext
    \/ MainShutdown
    \/ MainExits

InitRun ==
    /\ run_options \in [stop_on_violation : BOOLEAN]
    /\ machine_task = "waiting"
    /\ machine_shutdown = "open"
    /\ machine_done = "pending"
    /\ run_receiver = <<>>
    /\ runner_task = "loop"
    /\ run_result = None
    /\ terminate_result = None
    /\ run_events = <<>>
    /\ run_events_open = TRUE
    /\ run_shutdown = "open"
    /\ run_done = [tag |-> "pending"]
    /\ main_task = "loop"
    /\ main_exit = Ok(None)
    /\ exit_code = None
    /\ run_log = <<>>
    /\ run_budget = MaxRunEvents
    /\ InitBesidesRun

SpecRun == InitRun /\ [][NextRun]_vars

\* ------------------------------------------------------ claims on a test run

\* The i-th StateChanged run_test received carried a violation and
\* stop_on_violation is set.
StopsAt(i) ==
    run_options.stop_on_violation /\ ViolationOf(run_log[i].state) # None

\* What holds of a StateChanged whose violation stops the run: its event,
\* carrying the violation, was sent; no action was picked or applied for it;
\* run_test has left its loop, so that it is the last one received.
StoppedAt(i) ==
    /\ run_log[i].sent = <<NewTraceEntry(ViolationOf(run_log[i].state))>>
    /\ run_log[i].picked = None
    /\ run_log[i].applied = <<>>
    /\ i = Len(run_log)
    /\ runner_task # "loop"

\* C21 as stated: under stop_on_violation a StateChanged with a violation has
\* its event, carrying the violation, published before the loop exits, and no
\* action is picked or applied for it or afterwards; for a StateChanged
\* without violation exactly one action is applied.
C21_StopOrOneAction ==
    \A i \in DOMAIN run_log :
        /\ StopsAt(i) => StoppedAt(i)
        /\ ViolationOf(run_log[i].state) = None =>
               Len(run_log[i].applied) = 1

\* C21, amended: under stop_on_violation a StateChanged with a violation has
\* its event, carrying the violation, published before the loop exits, and no
\* action is picked or applied for it or afterwards; for any other
\* StateChanged the event is published as well and at most one action is
\* applied: exactly one when available_actions returns a tree that holds a
\* leaf and the state machine still listens for actions, and none otherwise,
\* in which case run_test ends with an error or a panic.
C21_StopOrAtMostOneAction ==
    \A i \in DOMAIN run_log :
        LET entry == run_log[i]
            actions == available_actions(entry.state.within_domain, entry.state)
            pickable == actions.tag = "Ok" /\ HasLeaf(actions.value)
        IN  IF StopsAt(i)
            THEN StoppedAt(i)
            ELSE /\ entry.sent = <<NewTraceEntry(ViolationOf(entry.state))>>
                 /\ IF pickable /\ entry.listening
                    THEN /\ Len(entry.applied) = 1
                         /\ entry.picked # None
                         /\ entry.applied[1] = entry.picked[1][1]
                         /\ entry.ended = None
                    ELSE /\ entry.applied = <<>>
                         /\ entry.ended # None
                         /\ i = Len(run_log)
                         /\ runner_task # "loop"

\* An action was applied for a first state, and the run was stopped at a
\* second one that carried a violation.
C21_Witness ==
    /\ Len(run_log) = 2
    /\ Len(run_log[1].applied) = 1
    /\ StopsAt(2)
    /\ run_events # <<>>
    /\ run_events[Len(run_events)].violation # None

\* C22: a test run exits with code 2 exactly when a violation was observed
\* and --exit-on-violation is set (a run the runner stops because of a
\* violation included), with code 1 on a fatal runtime error, and with code 0
\* otherwise.
C22_ExitCodes ==
    exit_code # None =>
        LET violated == \E i \in DOMAIN run_log : StopsAt(i)
            fatal == \/ run_done.tag = "dropped"
                     \/ main_exit.tag = "Err"
                     \/ /\ run_done.tag = "sent"
                        /\ run_done.result.tag = "Err"
                        /\ run_done.result.error # "stopping due to violation"
        IN  exit_code = Some(IF violated THEN 2 ELSE IF fatal THEN 1 ELSE 0)

\* C23: shutdown completes cleanly in every interleaving of the shutdown
\* signal with the state machine task: Browser::terminate returns Ok, and
\* the runner then sends its completion result, so that RunEvents::shutdown
\* returns it.
C23_CleanShutdown ==
    /\ terminate_result # None =>
           /\ terminate_result = Some(Ok(<<>>))
           /\ run_done = [tag |-> "sent", result |-> run_result[1]]
    /\ exit_code # None /\ run_result # None => run_done.tag = "sent"

\* ---------------------------------------------------------------------------
\* Coverage: the edge arrays of a page, their capture, and the runner's
\* global edge map.
\* ---------------------------------------------------------------------------

\* The largest value a cell of a Uint8Array holds.
U8_MAX == 255

\* The number of times the loop of bucket runs: n is shifted right until it
\* is zero.
RECURSIVE msb_of(_)
msb_of(n) == IF n > 0 THEN 1 + msb_of(n \div 2) ELSE 0

\* function bucket(hits) of the capture script.
bucket(count) ==
    IF count <= 3
    THEN count
    ELSE IF msb_of(count) + 1 <= 8 THEN msb_of(count) + 1 ELSE 8

\* The capture script calls bucket on a cell of edges_current.
ApplyBucket ==
    /\ bucketed = <<>>
    /\ bucketed' = <<bucket(hits)>>
    /\ UNCHANGED <<page_namespace, coverage_channel, edges, capture_log,
                   last_unit, coverage_budget, hits, hook_id, cells_hit>>
    /\ UNCHANGED besides_coverage

InitBucket ==
    /\ hits \in 0..U8_MAX
    /\ bucketed = <<>>
    /\ hook_id = <<>>
    /\ cells_hit = {}
    /\ page_namespace = <<>>
    /\ coverage_channel = <<>>
    /\ edges = <<>>
    /\ capture_log = <<>>
    /\ last_unit = <<>>
    /\ coverage_budget = 0
    /\ InitBesidesCoverage

SpecBucket == InitBucket /\ [][ApplyBucket]_vars

\* The integer part of the binary logarithm of n >= 1.
RECURSIVE floor_log2(_)
floor_log2(n) == IF n <= 1 THEN 0 ELSE 1 + floor_log2(n \div 2)

\* C25: bucket maps a hit count n to n for n in 0..3 and to
\* min(floor(log2(n)) + 1, 8) for every larger n an 8-bit counter holds (so
\* 4..7 map to 3 and 8..15 to 4); the result is within 0..8 and is
\* non-decreasing in n.
C25_BucketIsLogPlusOne ==
    bucketed # <<>> =>
        /\ bucketed[1] = IF hits <= 3
                         THEN hits
                         ELSE IF floor_log2(hits) + 1 <= 8
                              THEN floor_log2(hits) + 1
                              ELSE 8
        /\ bucketed[1] \in 0..8
        /\ \A fewer \in 0..hits : bucket(fewer) <= bucketed[1]

\* EDGE_MAP_SIZE, scaled down: the number of cells of an edge array.
EDGE_MAP_SIZE == 2

\* The width of the integers of JavaScript's bitwise operators (32 in the
\* engine), scaled down.
WordBits == 3

\* Page steps and captures of one run.
MaxPageSteps == 5

Cells == 0..(EDGE_MAP_SIZE - 1)

\* new Uint8Array(EDGE_MAP_SIZE)
Uint8Array_new == [cell \in Cells |-> 0]

\* ToInt32 of a number: its low bits, read as a signed integer.
ToInt32(number) ==
    LET low == number % (2 ^ WordBits)
    IN  IF low >= 2 ^ (WordBits - 1) THEN low - 2 ^ WordBits ELSE low

\* The bitwise exclusive or of two bit patterns.
RECURSIVE BitwiseXOR(_, _)
BitwiseXOR(left, right) ==
    IF left = 0 /\ right = 0
    THEN 0
    ELSE (((left % 2) + (right % 2)) % 2)
         + 2 * BitwiseXOR(left \div 2, right \div 2)

\* JavaScript's %: the remainder has the sign of the dividend.
Remainder(dividend, divisor) ==
    IF dividend >= 0 THEN dividend % divisor ELSE 0 - ((0 - dividend) % divisor)

\* The branch ids of the hooks the instrumenter emitted: hashes, of which
\* some have the sign bit set.
BranchIds == {1, 2, 2 ^ (WordBits - 1) + 1}

\* How often a block runs before the page does anything else.
Loops == {1, 6, U8_MAX + 1}

\* The statements the instrumenter puts in front of a block:
\* NS.edges_current[(id ^ NS.previous) % EDGE_MAP_SIZE] += 1;
\* NS.previous = id >> 1. A store outside the array is ignored, and a cell
\* holds its value modulo 256.
edge_index(namespace, id) ==
    Remainder(ToInt32(BitwiseXOR(id % (2 ^ WordBits),
                                 namespace.previous % (2 ^ WordBits))),
              EDGE_MAP_SIZE)

coverage_hooks(namespace, id) ==
    [namespace EXCEPT
        !.edges_current =
            IF edge_index(namespace, id) \in Cells
            THEN [@ EXCEPT ![edge_index(namespace, id)] =
                     (@ + 1) % (U8_MAX + 1)]
            ELSE @,
        !.previous = ToInt32(id) \div 2]

\* The cells that the runs of a block store to.
StoredCells(namespace, id, times) ==
    ({edge_index(namespace, id)}
     \cup (IF times > 1
           THEN {edge_index(coverage_hooks(namespace, id), id)}
           ELSE {}))
    \cap Cells

\* A block that runs a number of times in a row: the first half of the runs,
\* then the rest. The test of halfway.previous has the first half computed
\* before the rest is.
RECURSIVE run_block(_, _, _)
run_block(namespace, id, times) ==
    IF times = 0
    THEN namespace
    ELSE IF times = 1
         THEN coverage_hooks(namespace, id)
         ELSE LET halfway == run_block(namespace, id, times \div 2)
              IN  IF halfway.previous \in Int
                  THEN run_block(halfway, id, times - (times \div 2))
                  ELSE halfway

\* A prelude that assigns a new object whatever the window holds.
PRELUDE_fresh(window_namespace) ==
    <<[edges_previous |-> Uint8Array_new,
       edges_current |-> Uint8Array_new,
       previous |-> 0]>>

\* PRELUDE: window.NS = window.NS || { ... }.
PRELUDE(window_namespace) ==
    IF window_namespace # <<>>
    THEN window_namespace
    ELSE <<[edges_previous |-> Uint8Array_new,
            edges_current |-> Uint8Array_new,
            previous |-> 0]>>

\* The loop that computes the differences, from cell `from` on.
RECURSIVE differences_from(_, _, _)
differences_from(from, newer, older) ==
    IF from >= EDGE_MAP_SIZE
    THEN <<>>
    ELSE (IF newer[from] # older[from]
          THEN <<<<from, newer[from]>>>>
          ELSE <<>>)
         \o differences_from(from + 1, newer, older)

\* A capture that computes the differences before it buckets.
capture_edges_raw(window_namespace) ==
    IF window_namespace = <<>>
    THEN [edges_new |-> <<>>, namespace |-> window_namespace]
    ELSE LET namespace == window_namespace[1]
             bucketed_current ==
                 [cell \in Cells |-> bucket(namespace.edges_current[cell])]
         IN  [edges_new |->
                  differences_from(0, namespace.edges_current,
                                   namespace.edges_previous),
              namespace |->
                  <<[namespace EXCEPT !.edges_previous = bucketed_current,
                                      !.edges_current = Uint8Array_new]>>]

\* The capture script of BrowserState::current: bucket edges_current in
\* place, compute the differences to edges_previous, shift the arrays. The
\* transition hash script that follows fills edges_current with zeros.
capture_edges(window_namespace) ==
    IF window_namespace = <<>>
    THEN [edges_new |-> <<>>, namespace |-> window_namespace]
    ELSE LET namespace == window_namespace[1]
             bucketed_current ==
                 [cell \in Cells |-> bucket(namespace.edges_current[cell])]
         IN  [edges_new |->
                  differences_from(0, bucketed_current,
                                   namespace.edges_previous),
              namespace |->
                  <<[namespace EXCEPT !.edges_previous = bucketed_current,
                                      !.edges_current = Uint8Array_new]>>]

\* An update that stores the latest bucket.
RECURSIVE update_edges_latest(_, _)
update_edges_latest(map, edges_new) ==
    IF edges_new = <<>>
    THEN map
    ELSE update_edges_latest(
             [map EXCEPT ![Head(edges_new)[1]] = Head(edges_new)[2]],
             Tail(edges_new))

\* run_test's update of the global edges: the maximum, cell by cell.
RECURSIVE update_edges(_, _)
update_edges(map, edges_new) ==
    IF edges_new = <<>>
    THEN map
    ELSE LET index == Head(edges_new)[1]
             reported_bucket == Head(edges_new)[2]
         IN  update_edges(
                 [map EXCEPT ![index] =
                     IF @ >= reported_bucket THEN @ ELSE reported_bucket],
                 Tail(edges_new))

\* The page loads an instrumented unit: its prelude runs.
UnitLoads ==
    /\ coverage_budget > 0
    /\ coverage_budget' = coverage_budget - 1
    /\ page_namespace' = PRELUDE(page_namespace)
    /\ last_unit' = <<[before |-> page_namespace,
                       after |-> PRELUDE(page_namespace)]>>
    /\ UNCHANGED <<coverage_channel, edges, capture_log, hits, bucketed,
                   hook_id, cells_hit>>
    /\ UNCHANGED besides_coverage

\* A block of a loaded unit runs.
BlockRuns ==
    /\ coverage_budget > 0
    /\ page_namespace # <<>>
    /\ \E id \in BranchIds, times \in Loops :
          /\ page_namespace' = <<run_block(page_namespace[1], id, times)>>
          /\ cells_hit' =
                 cells_hit \cup StoredCells(page_namespace[1], id, times)
    /\ coverage_budget' = coverage_budget - 1
    /\ UNCHANGED <<coverage_channel, edges, capture_log, last_unit, hits,
                   bucketed, hook_id>>
    /\ UNCHANGED besides_coverage

\* The page navigates: the new document has a window without the namespace.
PageNavigates ==
    /\ coverage_budget > 0
    /\ page_namespace # <<>>
    /\ coverage_budget' = coverage_budget - 1
    /\ page_namespace' = <<>>
    /\ cells_hit' = {}
    /\ UNCHANGED <<coverage_channel, edges, capture_log, last_unit, hits,
                   bucketed, hook_id>>
    /\ UNCHANGED besides_coverage

\* BrowserState::current captures the coverage of the paused page; the
\* state goes to run_test.
CaptureCoverage ==
    /\ coverage_budget > 0
    /\ coverage_budget' = coverage_budget - 1
    /\ page_namespace' = capture_edges(page_namespace).namespace
    /\ coverage_channel' =
           Append(coverage_channel, capture_edges(page_namespace).edges_new)
    /\ cells_hit' = {}
    /\ UNCHANGED <<edges, capture_log, last_unit, hits, bucketed, hook_id>>
    /\ UNCHANGED besides_coverage

\* run_test receives a state and updates the global edges.
RunnerUpdatesEdges ==
    /\ coverage_channel # <<>>
    /\ edges' = update_edges(edges, Head(coverage_channel))
    /\ capture_log' = Append(capture_log, Head(coverage_channel))
    /\ coverage_channel' = Tail(coverage_channel)
    /\ UNCHANGED <<page_namespace, last_unit, coverage_budget, hits,
                   bucketed, hook_id, cells_hit>>
    /\ UNCHANGED besides_coverage

NextCoverage ==
    \/ UnitLoads
    \/ BlockRuns
    \/ PageNavigates
    \/ CaptureCoverage
    \/ RunnerUpdatesEdges

InitCoverage ==
    /\ page_namespace = <<>>
    /\ coverage_channel = <<>>
    /\ edges = Uint8Array_new
    /\ capture_log = <<>>
    /\ last_unit = <<>>
    /\ coverage_budget = MaxPageSteps
    /\ hits = 0
    /\ bucketed = <<>>
    /\ hook_id = <<>>
    /\ cells_hit = {}
    /\ InitBesidesCoverage

SpecCoverage == InitCoverage /\ [][NextCoverage]_vars

\* The array that results from storing the pairs of a delta into it.
RECURSIVE Overwritten(_, _)
Overwritten(array, delta) ==
    IF delta = <<>>
    THEN array
    ELSE Overwritten([array EXCEPT ![Head(delta)[1]] = Head(delta)[2]],
                     Tail(delta))

\* C24: for every pair (edges_previous, edges_current) a capture meets, the
\* delta it returns, written over edges_previous, gives exactly the bucketed
\* edges_current; after the capture edges_previous is that bucketed array
\* and edges_current is all zero.
C24_DeltaReconstructsCurrent ==
    [][(Len(coverage_channel') > Len(coverage_channel)
        /\ page_namespace # <<>>)
       => LET before == page_namespace[1]
              delta == coverage_channel'[Len(coverage_channel')]
              bucketed_current ==
                  [cell \in Cells |-> bucket(before.edges_current[cell])]
          IN  /\ Overwritten(before.edges_previous, delta) = bucketed_current
              /\ page_namespace' # <<>>
              /\ page_namespace'[1].edges_previous = bucketed_current
              /\ page_namespace'[1].edges_current = [cell \in Cells |-> 0]
      ]_vars

\* A second capture has returned a delta that takes one cell back to zero
\* and reports, for another, the bucket of a count that is not its own
\* bucket.
C24_Witness ==
    /\ Len(capture_log) >= 2
    /\ \E pair \in { capture_log[2][k] : k \in 1..Len(capture_log[2]) } :
          pair[2] = 0
    /\ \E pair \in { capture_log[2][k] : k \in 1..Len(capture_log[2]) } :
          pair[2] >= 4

\* The buckets that the first `count` received deltas report for a cell.
ReportedFor(cell, count) ==
    UNION { { capture_log[n][k][2] :
                k \in { at \in 1..Len(capture_log[n]) :
                           capture_log[n][at][1] = cell } } :
            n \in 1..count }

\* The largest number of a set of buckets, 0 for the empty set.
Maximum(buckets) ==
    IF buckets = {}
    THEN 0
    ELSE CHOOSE top \in buckets : \A other \in buckets : other <= top

\* C26: after every sequence of captured states, each cell of run_test's
\* global edge map is the largest bucket that any delta received so far
\* reports for its index, 0 if none does; and a cell never decreases,
\* whatever a later delta reports for it.
C26_EdgesAreRunningMaximum ==
    /\ [](\A cell \in Cells :
            edges[cell] =
                Maximum(ReportedFor(cell, Len(capture_log))))
    /\ [][\A cell \in Cells : edges'[cell] >= edges[cell]]_vars

\* run_test has received a delta that reports zero for a cell whose entry
\* in the global map is not zero.
C26_Witness ==
    /\ Len(capture_log) >= 2
    /\ \E k \in 1..Len(capture_log[Len(capture_log)]) :
          /\ capture_log[Len(capture_log)][k][2] = 0
          /\ edges[capture_log[Len(capture_log)][k][1]] > 0

\* C27: a prelude that runs on a page where the namespace object exists
\* leaves edges_previous, edges_current and previous as they are, so the
\* hits of earlier units are kept; the object is created only by a prelude
\* that finds none, the first of the page.
C27_PreludeKeepsNamespace ==
    /\ [](last_unit # <<>> =>
            IF last_unit[1].before # <<>>
            THEN last_unit[1].after = last_unit[1].before
            ELSE /\ last_unit[1].after # <<>>
                 /\ last_unit[1].after[1].edges_current
                        = [cell \in Cells |-> 0]
                 /\ last_unit[1].after[1].edges_previous
                        = [cell \in Cells |-> 0]
                 /\ last_unit[1].after[1].previous = 0)
    /\ [][(page_namespace = <<>> /\ page_namespace' # <<>>)
          => (last_unit' # <<>> /\ last_unit'[1].before = <<>>
              /\ last_unit'[1].after = page_namespace')]_vars

\* A second unit has loaded on a page whose namespace holds hits and a
\* captured array.
C27_Witness ==
    /\ last_unit # <<>>
    /\ last_unit[1].before # <<>>
    /\ \E cell \in Cells : last_unit[1].before[1].edges_current[cell] > 0
    /\ \E cell \in Cells : last_unit[1].before[1].edges_previous[cell] > 0
    /\ last_unit[1].before[1].previous # 0

\* ---------------------------------------------------------------------------
\* Request interception: the task that instruments the scripts a page loads.
\* ---------------------------------------------------------------------------

\* Requests the page makes in one run.
MaxRequests == 2

\* The resource types of the patterns the task enables with Fetch.enable:
\* instrument_coverage of browser.rs asks for scripts, instrument_js_coverage
\* of browser/instrumentation.rs for scripts and documents.
RequestPatterns(handler) ==
    IF handler = "instrument_coverage"
    THEN {"Script"}
    ELSE {"Script", "Document"}

\* fetch::EventRequestPaused, with whether a document is HTML.
EventRequestPaused(request_id, resource_type, status, is_html) ==
    [request_id |-> request_id,
     resource_type |-> resource_type,
     response_status_code |-> status,
     is_html_document |-> is_html]

\* The steps of intercept that return a Result, and "none".
InterceptSteps ==
    {"none", "headers", "get_body", "decode", "instrument", "fulfill"}

ContinueRequest == [command |-> "ContinueRequest"]
FulfillRequest(body) == [command |-> "FulfillRequest", body |-> body]

\* The closure intercept of instrument_coverage (browser.rs): the step
\* fails_at, if any, returns Err; a command that returns Ok has resolved the
\* request.
instrument_coverage_intercept(event, fails_at, continue_ok) ==
    IF event.resource_type # "Script"
    THEN [result |-> [tag |-> "Panicked"], resolved |-> <<>>]
    ELSE IF /\ event.response_status_code # None
            /\ event.response_status_code[1] # 200
         THEN IF continue_ok
              THEN [result |-> Ok("continued"),
                    resolved |-> <<ContinueRequest>>]
              ELSE [result |-> Err("failed continuing request"),
                    resolved |-> <<>>]
         ELSE IF fails_at # "none"
              THEN [result |-> Err(fails_at), resolved |-> <<>>]
              ELSE [result |-> Ok("fulfilled"),
                    resolved |-> <<FulfillRequest("instrumented")>>]

\* The closure intercept of instrument_js_coverage
\* (browser/instrumentation.rs): a script and an HTML document are
\* instrumented, any other document is fulfilled with its own body.
instrument_js_coverage_intercept(event, fails_at, continue_ok) ==
    IF /\ event.response_status_code # None
       /\ event.response_status_code[1] # 200
    THEN IF continue_ok
         THEN [result |-> Ok("continued"), resolved |-> <<ContinueRequest>>]
         ELSE [result |-> Err("failed continuing request"),
               resolved |-> <<>>]
    ELSE LET instruments == \/ event.resource_type = "Script"
                            \/ event.is_html_document
         IN  IF /\ fails_at # "none"
                /\ (fails_at = "instrument" => instruments)
             THEN [result |-> Err(fails_at), resolved |-> <<>>]
             ELSE [result |-> Ok("fulfilled"),
                   resolved |-> <<FulfillRequest(IF instruments
                                                 THEN "instrumented"
                                                 ELSE "original")>>]

\* As the loop of instrument_js_coverage, one iteration: an Err of intercept
\* is logged, the request continued, and a failure of that is a panic.
instrument_js_coverage_iteration(event, fails_at, continue_ok) ==
    LET intercepted ==
            instrument_js_coverage_intercept(event, fails_at, continue_ok)
    IN  IF intercepted.result.tag = "Ok"
        THEN [result |-> intercepted.result,
              resolved |-> intercepted.resolved,
              panicked |-> FALSE]
        ELSE IF continue_ok
             THEN [result |-> intercepted.result,
                   resolved |-> intercepted.resolved \o <<ContinueRequest>>,
                   panicked |-> FALSE]
             ELSE [result |-> intercepted.result,
                   resolved |-> intercepted.resolved,
                   panicked |-> TRUE]

\* One iteration of the loop of instrument_coverage: an Err of intercept is
\* logged.
instrument_coverage_iteration(event, fails_at, continue_ok) ==
    LET intercepted ==
            instrument_coverage_intercept(event, fails_at, continue_ok)
    IN  [result |-> intercepted.result,
         resolved |-> intercepted.resolved,
         panicked |-> intercepted.result.tag = "Panicked"]

\* The page requests a resource of an enabled pattern; the browser pauses
\* the request at the response stage.
RequestPaused ==
    /\ fetch_budget > 0
    /\ \E resource_type \in RequestPatterns(fetch_handler),
          response_status_code \in {None, Some(200), Some(404)},
          is_html_document \in BOOLEAN :
          /\ (is_html_document => resource_type = "Document")
          /\ fetch_events' =
                 Append(fetch_events,
                        EventRequestPaused(MaxRequests - fetch_budget + 1,
                                           resource_type,
                                           response_status_code,
                                           is_html_document))
    /\ fetch_budget' = fetch_budget - 1
    /\ UNCHANGED <<fetch_handler, fetch_resolutions, fetch_task,
                   last_intercept>>
    /\ UNCHANGED besides_fetch

\* The task takes the next event and handles it.
InterceptNext ==
    /\ fetch_task = "listening"
    /\ fetch_events # <<>>
    /\ \E fails_at \in InterceptSteps, continue_ok \in BOOLEAN :
          LET event == Head(fetch_events)
              iteration ==
                  IF fetch_handler = "instrument_coverage"
                  THEN instrument_coverage_iteration(event, fails_at,
                                                     continue_ok)
                  ELSE instrument_js_coverage_iteration(event, fails_at,
                                                        continue_ok)
          IN  /\ fetch_resolutions' =
                     [fetch_resolutions EXCEPT ![event.request_id] =
                         @ \o iteration.resolved]
              /\ fetch_task' =
                     IF iteration.panicked THEN "panicked" ELSE "listening"
              /\ last_intercept' = <<[event |-> event,
                                      result |-> iteration.result,
                                      continue_ok |-> continue_ok]>>
    /\ fetch_events' = Tail(fetch_events)
    /\ UNCHANGED <<fetch_handler, fetch_budget>>
    /\ UNCHANGED besides_fetch

NextFetch ==
    \/ RequestPaused
    \/ InterceptNext

InitFetch ==
    /\ fetch_handler \in {"instrument_coverage", "instrument_js_coverage"}
    /\ fetch_events = <<>>
    /\ fetch_resolutions = [request_id \in 1..MaxRequests |-> <<>>]
    /\ fetch_task = "listening"
    /\ last_intercept = <<>>
    /\ fetch_budget = MaxRequests
    /\ InitBesidesFetch

SpecFetch == InitFetch /\ [][NextFetch]_vars

\* C28: every paused script or document request is resolved exactly once,
\* fulfilled with the instrumented body or continued unchanged: a response
\* that is not 200 is continued and never fulfilled, and when reading the
\* body, decoding it or instrumenting it fails the request is continued and
\* not left paused. Stated for the requests whose ContinueRequest command
\* succeeds when issued.
C28_ResolvedExactlyOnce ==
    (last_intercept # <<>> /\ last_intercept[1].continue_ok) =>
        LET event == last_intercept[1].event
            resolved == fetch_resolutions[event.request_id]
        IN  /\ Len(resolved) = 1
            /\ (/\ event.response_status_code # None
                /\ event.response_status_code[1] # 200)
               => resolved = <<ContinueRequest>>
            /\ (/\ last_intercept[1].result.tag = "Err"
                /\ last_intercept[1].result.error
                       \in {"get_body", "decode", "instrument"})
               => resolved = <<ContinueRequest>>

\* ---------------------------------------------------------------------------
\* VerifierWorker: one thread that owns the Verifier and serves the commands
\* of concurrent callers.
\* ---------------------------------------------------------------------------

\* Concurrent callers of the worker's handle; each makes one call.
MaxCallers == 2

\* The capacity of mpsc::channel::<Command>(32), scaled down.
ChannelCapacity == 2

Callers == 1..MaxCallers

\* enum Command; `reply` is the oneshot sender, named by its caller.
Command_GetProperties(reply) == [tag |-> "GetProperties", reply |-> reply]
Command_Step(snapshots, time, reply) ==
    [tag |-> "Step", snapshots |-> snapshots, time |-> time, reply |-> reply]

\* The commands a caller can send.
CommandsOf(caller) ==
    {Command_GetProperties(caller)}
    \cup {Command_Step([foo |-> foo], time, caller) :
            foo \in {0, Target}, time \in 0..MaxTick}

\* The property of the worker's specification: eventually foo.current ===
\* Target, within 1 ms.
WorkerProperty ==
    Formula_Eventually(Formula_Thunk(RuntimeFunction(Target), FALSE), Some(1))

\* impl From<&ltl::Value<RuntimeFunction>> for PropertyValue: a Residual
\* loses its residual formula.
PropertyValue_from(value) ==
    CASE value.tag = "True" -> [tag |-> "True"]
      [] value.tag = "False" -> [tag |-> "False", violation |-> value.violation]
      [] value.tag = "Residual" -> [tag |-> "Residual"]

\* One arm of the match of the worker's loop: what the Verifier becomes and
\* what is sent on the command's reply channel.
worker_command(verifier, command) ==
    IF command.tag = "GetProperties"
    THEN [verifier |-> verifier, reply |-> <<"property">>]
    ELSE LET value == PropertyValue(verifier, command.time, command.snapshots)
         IN  [verifier |-> PropertyStateAfter(value),
              reply |-> Ok(<<<<"property", PropertyValue_from(value)>>>>)]

\* A receive that takes the command sent last.
blocking_recv_newest(channel) ==
    [command |-> channel[Len(channel)],
     rest |-> SubSeq(channel, 1, Len(channel) - 1)]

\* rx.blocking_recv() on a channel that holds a command: the oldest one.
blocking_recv(channel) ==
    [command |-> Head(channel), rest |-> Tail(channel)]

\* The states of a caller's oneshot channel.
Oneshot_None == [tag |-> "None"]
Oneshot_Open == [tag |-> "Open"]
Oneshot_Sent(value) == [tag |-> "Sent", value |-> value]
Oneshot_Dropped == [tag |-> "Dropped"]

WorkerGone == Err("WorkerGone")

\* VerifierWorker::properties or ::step up to its send: the command goes
\* into the channel once there is room; with the receiver gone the send
\* fails and the call returns WorkerGone.
CallerSends(caller) ==
    /\ caller_task[caller] = "idle"
    /\ IF worker_thread = "running"
       THEN /\ Len(worker_tx) < ChannelCapacity
            /\ \E command \in CommandsOf(caller) :
                  /\ worker_tx' = Append(worker_tx, command)
                  /\ worker_sent' = Append(worker_sent, command)
            /\ worker_reply' = [worker_reply EXCEPT ![caller] = Oneshot_Open]
            /\ caller_task' = [caller_task EXCEPT ![caller] = "awaiting"]
            /\ UNCHANGED caller_result
       ELSE /\ caller_task' = [caller_task EXCEPT ![caller] = "done"]
            /\ caller_result' =
                   [caller_result EXCEPT ![caller] = Append(@, WorkerGone)]
            /\ UNCHANGED <<worker_tx, worker_sent, worker_reply>>
    /\ UNCHANGED <<worker_thread, worker_verifier>>
    /\ UNCHANGED besides_worker

\* One turn of the worker's loop: receive a command, run it on the
\* Verifier, send the reply.
WorkerServes ==
    /\ worker_thread = "running"
    /\ worker_tx # <<>>
    /\ LET received == blocking_recv(worker_tx)
           served == worker_command(worker_verifier, received.command)
       IN  /\ worker_tx' = received.rest
           /\ worker_verifier' = served.verifier
           /\ worker_reply' =
                  [worker_reply EXCEPT ![received.command.reply] =
                      Oneshot_Sent(served.reply)]
    /\ UNCHANGED <<worker_thread, caller_task, caller_result, worker_sent>>
    /\ UNCHANGED besides_worker

\* The worker thread panics while it runs a command: the receiver, the
\* commands in the channel and their reply senders are dropped.
WorkerPanics ==
    /\ worker_thread = "running"
    /\ worker_tx # <<>>
    /\ worker_thread' = "gone"
    /\ worker_tx' = <<>>
    /\ worker_reply' =
           [caller \in Callers |->
               IF worker_reply[caller] = Oneshot_Open
               THEN Oneshot_Dropped
               ELSE worker_reply[caller]]
    /\ UNCHANGED <<worker_verifier, caller_task, caller_result, worker_sent>>
    /\ UNCHANGED besides_worker

\* reply_rx.await of a call: the value sent, or WorkerGone when the sender
\* was dropped.
CallerReceives(caller) ==
    /\ caller_task[caller] = "awaiting"
    /\ worker_reply[caller].tag \in {"Sent", "Dropped"}
    /\ caller_result' =
           [caller_result EXCEPT ![caller] =
               Append(@, IF worker_reply[caller].tag = "Sent"
                         THEN worker_reply[caller].value
                         ELSE WorkerGone)]
    /\ caller_task' = [caller_task EXCEPT ![caller] = "done"]
    /\ worker_reply' = [worker_reply EXCEPT ![caller] = Oneshot_None]
    /\ UNCHANGED <<worker_tx, worker_thread, worker_verifier, worker_sent>>
    /\ UNCHANGED besides_worker

NextWorker ==
    \/ \E caller \in Callers : CallerSends(caller)
    \/ WorkerServes
    \/ WorkerPanics
    \/ \E caller \in Callers : CallerReceives(caller)

InitWorker ==
    /\ worker_tx = <<>>
    /\ worker_thread = "running"
    /\ worker_verifier = PropertyState_Initial(WorkerProperty)
    /\ worker_reply = [caller \in Callers |-> Oneshot_None]
    /\ caller_task = [caller \in Callers |-> "idle"]
    /\ caller_result = [caller \in Callers |-> <<>>]
    /\ worker_sent = <<>>
    /\ InitBesidesWorker

SpecWorker == InitWorker /\ [][NextWorker]_vars

\* The Verifier after the first `count` commands sent, run in that order.
RECURSIVE VerifierAfter(_)
VerifierAfter(count) ==
    IF count = 0
    THEN PropertyState_Initial(WorkerProperty)
    ELSE worker_command(VerifierAfter(count - 1), worker_sent[count]).verifier

\* The place of a caller's command in the order of sending.
PlaceOf(caller) ==
    CHOOSE place \in 1..Len(worker_sent) : worker_sent[place].reply = caller

\* The reply to a caller's command when the commands are run one at a time
\* in the order of sending.
ReplyInOrder(caller) ==
    worker_command(VerifierAfter(PlaceOf(caller) - 1),
                   worker_sent[PlaceOf(caller)]).reply

\* C29: the worker runs the commands one at a time in the order they were
\* sent, for any number of concurrent callers: every reply is the result of
\* the caller's own command on the Verifier left by the commands sent before
\* it, and every caller receives exactly one reply, that result or
\* WorkerGone if the worker has stopped.
C29_OneReplyInOrder ==
    /\ worker_thread = "running" =>
           /\ worker_tx = SubSeq(worker_sent,
                                 Len(worker_sent) - Len(worker_tx) + 1,
                                 Len(worker_sent))
           /\ worker_verifier =
                  VerifierAfter(Len(worker_sent) - Len(worker_tx))
    /\ \A caller \in Callers :
          /\ worker_reply[caller].tag = "Sent"
                 => worker_reply[caller].value = ReplyInOrder(caller)
          /\ Len(caller_result[caller])
                 = IF caller_task[caller] = "done" THEN 1 ELSE 0
          /\ \A n \in DOMAIN caller_result[caller] :
                 \/ /\ worker_thread = "gone"
                    /\ caller_result[caller][n] = WorkerGone
                 \/ /\ \E place \in 1..Len(worker_sent) :
                           worker_sent[place].reply = caller
                    /\ caller_result[caller][n] = ReplyInOrder(caller)
          /\ (/\ caller_task[caller] = "awaiting"
              /\ \A k \in DOMAIN worker_tx : worker_tx[k].reply # caller)
                 => worker_reply[caller].tag \in {"Sent", "Dropped"}

\* Two callers have sent Step commands and both have their replies; the
\* reply to the command sent second is not what that command gives on a new
\* Verifier.
C29_Witness ==
    /\ Len(worker_sent) >= 2
    /\ worker_sent[1].tag = "Step"
    /\ worker_sent[2].tag = "Step"
    /\ caller_task[worker_sent[1].reply] = "done"
    /\ caller_task[worker_sent[2].reply] = "done"
    /\ caller_result[worker_sent[2].reply]
           = <<ReplyInOrder(worker_sent[2].reply)>>
    /\ ReplyInOrder(worker_sent[2].reply)
           # worker_command(PropertyState_Initial(WorkerProperty),
                            worker_sent[2]).reply

\* The values ToInt32 gives the branch ids the instrumenter emits: hashes,
\* of every bit pattern.
EmittedIds == 0..(2 ^ WordBits - 1)

\* The values of NS.previous on a page: 0 after the prelude, id >> 1 after a
\* hook.
PreviousValues == {0} \cup {ToInt32(id) \div 2 : id \in EmittedIds}

\* A hook of an instrumented block runs once.
HookRuns ==
    /\ hook_id = <<>>
    /\ \E id \in EmittedIds :
          /\ hook_id' = <<id>>
          /\ page_namespace' = <<coverage_hooks(page_namespace[1], id)>>
    /\ UNCHANGED <<coverage_channel, edges, capture_log, last_unit,
                   coverage_budget, hits, bucketed, cells_hit>>
    /\ UNCHANGED besides_coverage

InitHook ==
    /\ \E previous_id \in PreviousValues,
          counts \in [Cells -> {0, 1, U8_MAX}] :
          page_namespace = <<[edges_previous |-> Uint8Array_new,
                              edges_current |-> counts,
                              previous |-> previous_id]>>
    /\ hook_id = <<>>
    /\ coverage_channel = <<>>
    /\ edges = <<>>
    /\ capture_log = <<>>
    /\ last_unit = <<>>
    /\ coverage_budget = 0
    /\ hits = 0
    /\ bucketed = <<>>
    /\ cells_hit = {}
    /\ InitBesidesCoverage

SpecHook == InitHook /\ [][HookRuns]_vars

\* C35: for every branch id and every value of previous the index
\* (id ^ previous) % EDGE_MAP_SIZE, with the signed bitwise semantics of
\* JavaScript, is the index of a cell, so that every hook that runs
\* increments exactly one cell of edges_current.
C35_HookIncrementsOneCell ==
    [][hook_id' # <<>> =>
          /\ edge_index(page_namespace[1], hook_id'[1]) \in Cells
          /\ \E cell \in Cells :
                page_namespace'[1].edges_current =
                    [page_namespace[1].edges_current EXCEPT
                        ![cell] = (@ + 1) % (U8_MAX + 1)]
      ]_vars

\* C40: a cell that was hit at least once between two captures has a
\* non-zero bucket at the next capture, for every number of hits, 256 or
\* more included.
C40_HitCellHasBucket ==
    [][(Len(coverage_channel') > Len(coverage_channel)
        /\ page_namespace # <<>>)
       => \A cell \in cells_hit :
              page_namespace'[1].edges_previous[cell] # 0
      ]_vars

\* ------------------------------------------------ state requests, any state

\* C31: a StateRequested that is not stale starts a capture, whatever the
\* state of the machine when it is processed, Running or not: a pause is
\* requested and the machine enters Pausing.
C31_RequestStartsCapture ==
    (Stepped /\ last_step.event.type = "StateRequested" /\ ~last_step.stale) =>
        /\ last_step.result.ok
        /\ last_step.result.pause
        /\ last_step.result.state.tag = "Pausing"

\* ------------------------------------------------------ the runner's action

\* C36: whenever the machine processes an ActionApplied, which the runner
\* sent in answer to a StateChanged, the machine is in Paused, whatever
\* Loaded, navigation and Paused events were queued around the capture; the
\* action is never an unhandled transition.
C36_ActionFindsPaused ==
    (Stepped /\ last_step.event.type = "ActionApplied") =>
        /\ last_step.from.tag = "Paused"
        /\ last_step.result.ok

\* C37: an action the machine accepted (Paused + ActionApplied -> Resuming)
\* is applied to the page exactly once: a Paused, Loaded or navigation event
\* processed before the Resumed event does not drop it, and it is not
\* applied twice. Stated for the steps that do not fail: a step that starts
\* in Resuming either applies the action it holds or keeps holding it, and an
\* action is applied only by such a step.
C37_AcceptedActionApplied ==
    (Stepped /\ last_step.result.ok) =>
        /\ last_step.from.tag = "Resuming" =>
               \/ last_step.result.applied = <<last_step.from.action>>
               \/ /\ last_step.result.applied = <<>>
                  /\ last_step.result.state = last_step.from
        /\ last_step.from.tag # "Resuming" => last_step.result.applied = <<>>

\* ---------------------------------------------------------------------------
\* C38: every StateChanged published on the capacity-1 broadcast channel is
\* received by the runner: no step of the machine publishes a StateChanged
\* while the previous one is still in the channel, so the runner's receiver
\* never lags.
C38_PublishedIsReceived ==
    [][(sender_channel = <<"StateChanged">> /\ Stepped')
           => (sender_channel' = sender_channel /\ ~sender_lagged')]_vars

\* ---------------------------------------------------------------------------
\* BrowserState::current: the navigation history of the captured state.

MaxEntries == 3

\* The ids of the browser's navigation entries; an entry is its id here.
EntryIds == 1..(MaxEntries + 1)

\* The entry lists the browser can hold: at least one entry, ids distinct.
EntryLists ==
    {entries \in UNION {[1..n -> EntryIds] : n \in 1..MaxEntries} :
        \A i, j \in DOMAIN entries : entries[i] = entries[j] => i = j}

\* navigation_entries[from..to] of a Vec indexed from 0.
Slice(entries, from, to) == SubSeq(entries, from + 1, to)

\* The NavigationHistory built from the entries and the index: back is
\* [0..index], current is [index], forward is [index..].
NavigationHistory(entries, index) ==
    [back |-> Slice(entries, 0, index),
     current |-> entries[index + 1],
     forward |-> Slice(entries, index, Len(entries))]

\* BrowserState::current reads the history and slices it.
CaptureHistory ==
    /\ captured_history = None
    /\ captured_history' =
           Some(NavigationHistory(navigation_entries, current_index))
    /\ UNCHANGED <<navigation_entries, current_index>>
    /\ UNCHANGED besides_capture

InitHistory ==
    /\ navigation_entries \in EntryLists
    /\ current_index \in 0..(Len(navigation_entries) - 1)
    /\ captured_history = None
    /\ InitNoPrune
    /\ InitNoStep
    /\ InitBesidesUnit

SpecHistory == InitHistory /\ [][CaptureHistory]_vars

\* The entries of a list.
EntriesOf(entries) == {entries[i] : i \in DOMAIN entries}

\* C33: navigation_history slices the entry list at the current index: back
\* holds exactly the entries before it, forward exactly the entries after
\* it, the current entry is in neither, and back ++ [current] ++ forward is
\* the entry list.
C33_HistoryPartitionsEntries ==
    captured_history # None =>
        LET history == captured_history[1]
        IN  /\ history.back = SubSeq(navigation_entries, 1, current_index)
            /\ history.current = navigation_entries[current_index + 1]
            /\ history.forward =
                   SubSeq(navigation_entries, current_index + 2,
                          Len(navigation_entries))
            /\ history.current \notin
                   EntriesOf(history.back) \cup EntriesOf(history.forward)
            /\ history.back \o <<history.current>> \o history.forward
                   = navigation_entries

\* ---------------------------------------------------------------------------
\* Tree::prune over the trees of a bounded number of nodes.

MaxNodes == 5

\* The values the leaves hold.
LeafValues == {1, 2}

\* The trees of exactly n nodes, and the lists of trees of n nodes in all.
RECURSIVE TreesOfSize(_), ForestsOfSize(_)
TreesOfSize(n) ==
    (IF n = 1 THEN {Tree_Leaf(x) : x \in LeafValues} ELSE {})
        \cup {Tree_Branch(forest) : forest \in ForestsOfSize(n - 1)}
ForestsOfSize(n) ==
    IF n = 0
    THEN {<<>>}
    ELSE UNION {{<<first>> \o rest : first \in TreesOfSize(k),
                                     rest \in ForestsOfSize(n - k)} :
                   k \in 1..n}

Trees == UNION {TreesOfSize(n) : n \in 1..MaxNodes}

\* The leaves of a tree, from left to right.
RECURSIVE LeavesOf(_), LeavesOfAll(_)
LeavesOf(tree) ==
    IF tree.tag = "Leaf" THEN <<tree.value>> ELSE LeavesOfAll(tree.branches)
LeavesOfAll(trees) ==
    IF trees = <<>> THEN <<>>
    ELSE LeavesOf(Head(trees)) \o LeavesOfAll(Tail(trees))

\* No Branch of the tree, at any depth, is empty.
RECURSIVE NoEmptyBranch(_)
NoEmptyBranch(tree) ==
    \/ tree.tag = "Leaf"
    \/ /\ tree.branches # <<>>
       /\ \A i \in DOMAIN tree.branches : NoEmptyBranch(tree.branches[i])

\* The tree with every subtree that holds no leaf taken out.
RECURSIVE WithoutLeafless(_)
WithoutLeafless(tree) ==
    IF tree.tag = "Leaf"
    THEN tree
    ELSE LET kept == SelectSeq(tree.branches, HasLeaf)
         IN  Tree_Branch([i \in DOMAIN kept |-> WithoutLeafless(kept[i])])

\* A caller prunes the tree.
Prune ==
    /\ tree_pruned = None
    /\ tree_pruned' = Some(prune(tree_self))
    /\ UNCHANGED <<tree_self, tree_again>>
    /\ UNCHANGED besides_tree

\* It prunes the tree it got back.
PruneAgain ==
    /\ tree_pruned # None
    /\ tree_pruned[1] # None
    /\ tree_again = None
    /\ tree_again' = Some(prune(tree_pruned[1][1]))
    /\ UNCHANGED <<tree_self, tree_pruned>>
    /\ UNCHANGED besides_tree

NextPrune == Prune \/ PruneAgain

InitPrune ==
    /\ tree_self \in Trees
    /\ tree_pruned = None
    /\ tree_again = None
    /\ InitNoHistory
    /\ InitNoStep
    /\ InitBesidesUnit

SpecPrune == InitPrune /\ [][NextPrune]_vars

\* C34: Tree::prune returns None exactly when the tree holds no leaf;
\* otherwise it returns the tree without its empty branches, at every depth
\* and including those that are empty once their children are pruned, with
\* all the leaves in their order; pruning the result again changes nothing.
C34_PruneRemovesEmptyBranches ==
    /\ tree_pruned # None =>
           LET result == tree_pruned[1]
           IN  /\ (result = None) <=> ~HasLeaf(tree_self)
               /\ result # None =>
                      /\ NoEmptyBranch(result[1])
                      /\ LeavesOf(result[1]) = LeavesOf(tree_self)
                      /\ result[1] = WithoutLeafless(tree_self)
    /\ tree_again # None => tree_again[1] = tree_pruned[1]

\* A tree with two leaves around a branch that is empty only once its own
\* empty branch is gone has been pruned twice.
C34_Witness ==
    /\ tree_again # None
    /\ Len(LeavesOf(tree_self)) >= 2
    /\ \E i \in DOMAIN tree_self.branches :
           /\ tree_self.branches[i].tag = "Branch"
           /\ tree_self.branches[i].branches # <<>>
           /\ ~HasLeaf(tree_self.branches[i])

\* ---------------------------------------------------------------------------
\* Verifier::step when a thunk or an extractor update fails.

\* Evaluating or stepping the property calls its thunk: always for a formula
\* not yet evaluated, and for a residual whose bound has not passed.
CallsThunk(state, time) ==
    CASE state.tag = "Initial" -> TRUE
      [] state.tag = "Residual" -> ~Expired(state.residual.derived.end, time)
      [] OTHER -> FALSE

\* The snapshots taken: one under which only the thunk of the always holds,
\* one under which neither thunk holds, and one under which only the thunk
\* of the eventually holds.
SnapshotValues == {0, Limit, Target}

\* The place in `order` of the first property whose evaluation returns Err,
\* given the properties whose thunk throws; 0 if there is none.
FirstFailure(order, throwing, states, time) ==
    LET failing == {i \in DOMAIN order :
                       /\ order[i] \in throwing
                       /\ CallsThunk(states[order[i]], time)}
    IN  IF failing = {} THEN 0
        ELSE CHOOSE i \in failing : \A j \in failing : i <= j

\* Verifier::step where the update of the extractors or the call of a thunk
\* may fail: the extractors are updated first, an Err there returns before
\* any property is looked at; then the properties are evaluated in the map's
\* order and each one's state is replaced as it goes, until one returns Err.
VerifierStepOrError ==
    \E foo \in SnapshotValues, time \in 0..MaxTime,
       order \in Orders(DOMAIN property_state),
       throwing \in SUBSET DOMAIN property_state,
       update_fails \in BOOLEAN :
        LET snapshot == [foo |-> foo]
            value(name) == PropertyValue(property_state[name], time, snapshot)
            failure == FirstFailure(order, throwing, property_state, time)
            place(name) == CHOOSE i \in DOMAIN order : order[i] = name
        IN  /\ IF verifier_time = None THEN time <= MaxTick
               ELSE /\ verifier_time[1] < time
                    /\ time <= verifier_time[1] + MaxTick
            /\ step_before' = Some(property_state)
            /\ verifier_time' = Some(time)
            /\ IF update_fails
               THEN /\ results' = Some(Err("update"))
                    /\ UNCHANGED <<property_state, extractors>>
               ELSE /\ extractors' = snapshot
                    /\ results' =
                           IF failure = 0
                           THEN Some(Ok([i \in DOMAIN order |->
                                            <<order[i], value(order[i])>>]))
                           ELSE Some(Err("thunk"))
                    /\ property_state' =
                           [name \in DOMAIN property_state |->
                               IF failure = 0 \/ place(name) < failure
                               THEN PropertyStateAfter(value(name))
                               ELSE property_state[name]]
            /\ UNCHANGED <<property, started_at, previous_time, first_held,
                           first_failed, on_script, check_vars, sm_vars,
                           history_vars, engine_vars, run_vars, coverage_vars,
                           fetch_vars, worker_vars, capture_vars, tree_vars,
                           step_log>>

InitStepError ==
    /\ \E always_formula \in AlwaysProperties, eventually_formula \in Properties :
           /\ always_formula.bound = eventually_formula.bound
           /\ InitVerifier([always_prop |-> always_formula,
                            eventually_prop |-> eventually_formula])
    /\ step_before = None
    /\ step_log = <<>>
    /\ InitSession
    /\ InitNoCheck
    /\ InitNoEngine
    /\ InitNoRun
    /\ InitNoCoverage
    /\ InitNoFetch
    /\ InitNoWorker
    /\ InitNoHistory
    /\ InitNoPrune

SpecStepError == InitStepError /\ [][VerifierStepOrError]_vars

\* C39: when Verifier::step returns an error no property's state has been
\* changed by that call: the properties evaluated before the failure are in
\* the state they had before the call.
C39_ErrorLeavesStates ==
    (results # None /\ results[1].tag = "Err") =>
        property_state = step_before[1]

\* ---------------------------------------------------------------------------
\* always(eventually(p).within(d)): the bound of the nested operator.

\* always(eventually(() => foo.current === Target).within(d))
NestedProperties ==
    {Formula_Always(
         Formula_Eventually(Formula_Thunk(RuntimeFunction(Target), FALSE),
                            Some(d)),
         None) : d \in 0..MaxBound}

\* Verifier::step of a verifier that holds the nested property, with the
\* snapshot foo taken at `time`, later than the previous step.
VerifierStepNested ==
    \E foo \in {0, Target}, time \in 0..MaxTime :
        LET snapshot == [foo |-> foo]
            value == PropertyValue(property_state.nested_prop, time, snapshot)
        IN  /\ IF verifier_time = None THEN time <= MaxTick
               ELSE /\ verifier_time[1] < time
                    /\ time <= verifier_time[1] + MaxTick
            /\ extractors' = snapshot
            /\ verifier_time' = Some(time)
            /\ results' = Some(<<<<"nested_prop", value>>>>)
            /\ property_state' = [nested_prop |-> PropertyStateAfter(value)]
            /\ step_log' = Append(step_log,
                                  [time |-> time, held |-> foo = Target])
            /\ UNCHANGED <<property, started_at, previous_time, first_held,
                           first_failed, on_script, check_vars, sm_vars,
                           history_vars, engine_vars, run_vars, coverage_vars,
                           fetch_vars, worker_vars, capture_vars, tree_vars,
                           step_before>>

InitNested ==
    /\ \E formula \in NestedProperties : InitVerifier([nested_prop |-> formula])
    /\ step_before = None
    /\ step_log = <<>>
    /\ InitSession
    /\ InitNoCheck
    /\ InitNoEngine
    /\ InitNoRun
    /\ InitNoCoverage
    /\ InitNoFetch
    /\ InitNoWorker
    /\ InitNoHistory
    /\ InitNoPrune

SpecNested == InitNested /\ [][VerifierStepNested]_vars

\* The bound d of the nested eventually.
NestedBound == property.nested_prop.subformula.bound[1]

\* Step k of the log comes after the deadline of the obligation that step i,
\* at which p was false, created, and p held at no step from i up to that
\* deadline.
Overdue(i, k) ==
    /\ ~step_log[i].held
    /\ step_log[k].time > step_log[i].time + NestedBound
    /\ \A j \in i..k :
           step_log[j].time <= step_log[i].time + NestedBound
               => ~step_log[j].held

\* The steps at which some obligation is overdue.
OverdueSteps ==
    {k \in DOMAIN step_log : \E i \in 1..k : Overdue(i, k)}

\* The violation that the Always violations around it report.
RECURSIVE Cause(_)
Cause(violation) ==
    IF violation.tag = "Always" THEN Cause(violation.violation) ELSE violation

\* C32: in always(eventually(p).within(d)) the bound is measured from the
\* step that evaluates the eventually: every step at t_i at which p is false
\* creates an obligation with deadline t_i + d; the property is False from
\* the first step whose time is past t_i + d for an i such that p held at no
\* step in [t_i, t_i + d], reported with that step's time, and a Residual at
\* every step before.
C32_NestedBoundFromBirth ==
    results # None =>
        LET value == results[1][1][2]
        IN  IF OverdueSteps = {}
            THEN value.tag = "Residual"
            ELSE LET first == CHOOSE k \in OverdueSteps :
                                  \A other \in OverdueSteps : k <= other
                 IN  /\ value.tag = "False"
                     /\ value.violation.tag = "Always"
                     /\ value.violation.time = step_log[first].time
                     /\ Cause(value.violation).tag = "Eventually"
                     /\ Cause(value.violation).reason
                            = TimedOut(step_log[first].time)

\* The obligation of the first step was met in time, a later one was not:
\* the property is False although p held within d of the first step.
C32_Witness ==
    /\ results # None
    /\ results[1][1][2].tag = "False"
    /\ NestedBound >= 1
    /\ ~step_log[1].held
    /\ step_log[1].time > 0
    /\ \E j \in DOMAIN step_log :
           /\ step_log[j].held
           /\ step_log[j].time <= step_log[1].time + NestedBound

====
